---- MODULE Spec2Model ----
(***************************************************************************)
(* clipquery backend: the video processing pipeline (process_video and the *)
(* YouTube transcript fallback chain), the window builder, the vector      *)
(* index writes and the unified search, as state machines over the         *)
(* relational store (videos, video_segments) and the vector index.         *)
(*                                                                         *)
(* Texts are sequences of one-character strings.  Times are integers in    *)
(* ticks, TicksPerSec ticks to the second.                                 *)
(***************************************************************************)
EXTENDS Integers, Sequences, FiniteSets, TLC

(***************************************************************************)
(* Bounds of the model.                                                    *)
(***************************************************************************)
MaxVideos == 2
MaxRuns == 2
MaxRequests == 3
TicksPerSec == 2
MaxMessages == 2
MaxChunks == 3
MaxSegments == 2

VideoIds == 1..MaxVideos
Runs == 1..MaxRuns

(***************************************************************************)
(* Generic helpers on sequences.                                           *)
(***************************************************************************)
Range(s) == {s[i] : i \in 1..Len(s)}

Min(a, b) == IF a < b THEN a ELSE b

Max(a, b) == IF a > b THEN a ELSE b

RECURSIVE SeqMaxEnd(_)
SeqMaxEnd(s) ==
    IF Len(s) = 1 THEN s[1].end ELSE Max(s[1].end, SeqMaxEnd(Tail(s)))

Perms(n) == {p \in [1..n -> 1..n] : \A i, j \in 1..n : i # j => p[i] # p[j]}

(***************************************************************************)
(* Text: str.strip() and " ".join(...).                                    *)
(***************************************************************************)
IsSpace(c) == c = " "

RECURSIVE LStrip(_)
LStrip(t) == IF t # <<>> /\ IsSpace(t[1]) THEN LStrip(Tail(t)) ELSE t

RECURSIVE RStrip(_)
RStrip(t) ==
    IF t # <<>> /\ IsSpace(t[Len(t)]) THEN RStrip(SubSeq(t, 1, Len(t) - 1)) ELSE t

Strip(t) == RStrip(LStrip(t))

RECURSIVE JoinSpace(_)
JoinSpace(parts) ==
    IF parts = <<>> THEN <<>>
    ELSE IF Len(parts) = 1 THEN parts[1]
    ELSE parts[1] \o <<" ">> \o JoinSpace(Tail(parts))

(***************************************************************************)
(* Segments {text, start, end} and the transcripts the transcript sources  *)
(* can deliver.                                                            *)
(***************************************************************************)
Seg(text, s, e) == [text |-> text, start |-> s, end |-> e]

SegHello == Seg(<<"h", "i">>, 0, 6 * TicksPerSec)
SegFine == Seg(<<"f", "i", "n", "e">>, 6 * TicksPerSec, 12 * TicksPerSec)

TrOrdered == <<SegHello, SegFine>>
TrUnordered == <<SegFine, SegHello>>
TrEmpty == <<>>

Transcripts == {TrOrdered, TrUnordered, TrEmpty}

(***************************************************************************)
(* create_overlapping_windows (video_service.py)                           *)
(***************************************************************************)
window_size == 10 * TicksPerSec
overlap == 5 * TicksPerSec

\* variant: a segment that spans the whole window is not seen
SegmentInWindowEdgesOnly(segment, current_time, window_end) ==
    \/ (segment.start >= current_time /\ segment.start < window_end)
    \/ (segment.end > current_time /\ segment.end <= window_end)

\* the three-condition overlap test of one segment against one window
SegmentInWindow(segment, current_time, window_end) ==
    \/ (segment.start >= current_time /\ segment.start < window_end)
    \/ (segment.end > current_time /\ segment.end <= window_end)
    \/ (segment.start < current_time /\ segment.end > window_end)

WindowSegments(segments, current_time, window_end) ==
    SelectSeq(segments, LAMBDA s : SegmentInWindow(s, current_time, window_end))

MapStripText(segments) == [i \in 1..Len(segments) |-> Strip(segments[i].text)]

\* variant: a window is emitted whatever its text
WindowAtKeepingBlank(segments, current_time, wsize, last_end) ==
    LET window_end == current_time + wsize
        window_segments == WindowSegments(segments, current_time, window_end)
        combined_text == JoinSpace(MapStripText(window_segments))
    IN  IF window_segments # <<>>
        THEN << [text |-> Strip(combined_text),
                 start_time |-> current_time,
                 end_time |-> Min(window_end, last_end)] >>
        ELSE <<>>

\* variant: the text of a window is the text of its first segment
WindowAtFirstSegmentOnly(segments, current_time, wsize, last_end) ==
    LET window_end == current_time + wsize
        window_segments == WindowSegments(segments, current_time, window_end)
        combined_text == JoinSpace(MapStripText(SubSeq(window_segments, 1, 1)))
    IN  IF window_segments # <<>> /\ Strip(combined_text) # <<>>
        THEN << [text |-> Strip(combined_text),
                 start_time |-> current_time,
                 end_time |-> Min(window_end, last_end)] >>
        ELSE <<>>

\* the body of the while loop for one window position: zero or one window
WindowAt(segments, current_time, wsize, last_end) ==
    LET window_end == current_time + wsize
        window_segments == WindowSegments(segments, current_time, window_end)
        combined_text == JoinSpace(MapStripText(window_segments))
    IN  IF window_segments # <<>> /\ Strip(combined_text) # <<>>
        THEN << [text |-> Strip(combined_text),
                 start_time |-> current_time,
                 end_time |-> Min(window_end, last_end)] >>
        ELSE <<>>

RECURSIVE WindowsFrom(_, _, _, _, _)
WindowsFrom(segments, current_time, wsize, ovl, last_end) ==
    IF current_time < last_end
    THEN WindowAt(segments, current_time, wsize, last_end)
         \o WindowsFrom(segments, current_time + ovl, wsize, ovl, last_end)
    ELSE <<>>

create_overlapping_windows(segments, wsize, ovl) ==
    IF segments = <<>> THEN <<>>
    ELSE WindowsFrom(segments, 0, wsize, ovl, SeqMaxEnd(segments))


(***************************************************************************)
(* State.                                                                  *)
(*   cfg           environment: YOUTUBE_TRANSCRIPT_API_TOKEN,              *)
(*                 CLOUDFLARE_WORKER_URL and PINECONE_API_KEY set or not   *)
(*   video_status  videos.status per id ("absent": no row)                 *)
(*   video_type    videos.video_type per id                                *)
(*   segs          committed video_segments rows per video, insert order   *)
(*   pinecone      the vector index: whether it exists, and its entries    *)
(*   pc .. result  per process_video run: position, video id,             *)
(*                 processed_segments, rows added to the session and not   *)
(*                 yet committed, windows, strategies tried, what          *)
(*                 store_embeddings_in_pinecone did, pending exception,    *)
(*                 and the value returned or raised                        *)
(*   fetched       per run: whether fetch_youtube_transcript was called    *)
(*   nreq          requests served so far                                  *)
(*   searchOut     the search being answered                               *)
(*   wpc .. msgs   one chat connection: the handler's position and pending *)
(*                 exception, the connection as the server left it, the    *)
(*                 transport, the events sent, the handler's locals        *)
(*                 (user_message, search_results, response, si: chunks     *)
(*                 taken from the response, full_response) and the log of  *)
(*                 the messages received                                   *)
(*   given ..      one call of create_overlapping_windows followed by      *)
(*                 store_embeddings_in_pinecone: the argument, the         *)
(*                 windows, the vectors upserted, the position and the     *)
(*                 arguments window_size and overlap                       *)
(*   source ..     one transcript on its way from a source to the store:   *)
(*                 the source, the entries it delivers, the segments       *)
(*                 handed to smart_segment_youtube_transcript, the         *)
(*                 strategy chosen, the loop index and the open group of   *)
(*                 group_small_segments, the segments returned, the rows   *)
(*                 added to the store and the position                     *)
(*   ureq ..       one POST /upload-youtube: the request, the response and *)
(*                 videos.youtube_id per id                                *)
(*   rt_args ..    one call of a function wrapped by retry_async: the      *)
(*                 decorator's arguments, the position, the wrapper's      *)
(*                 locals attempt, current_delay and last_exception, what  *)
(*                 the invocations of the function did, the waits, and     *)
(*                 what the wrapper returned or raised                     *)
(***************************************************************************)
VARIABLES cfg, video_status, video_type, segs, pinecone,
          pc, rvid, processed, pending, wins, tried, fetched, idx, exc, result,
          nreq, searchOut,
          wpc, hexc, conn, transport, sent, user_message, search_results, response,
          si, full_response, msgs,
          given, built, upserted, bpc, window_args,
          source, transcript, raw_segments, strategy, gi, current_group,
          smart_segments, stored, spc,
          ureq, uresp, youtube_ids,
          rt_args, rt_pc, attempt, current_delay, last_exception, invocations, slept,
          rt_result

runVars == <<pc, rvid, processed, pending, wins, tried, fetched, idx, exc, result>>
dbVars == <<video_status, video_type, segs>>
chatVars == <<wpc, hexc, conn, transport, sent, user_message, search_results, response,
              si, full_response, msgs>>
builderVars == <<given, built, upserted, bpc, window_args>>
segVars == <<source, transcript, raw_segments, strategy, gi, current_group,
             smart_segments, stored, spc>>
uploadVars == <<ureq, uresp, youtube_ids>>
retryVars == <<rt_args, rt_pc, attempt, current_delay, last_exception, invocations,
               slept, rt_result>>
vars == <<cfg, video_status, video_type, segs, pinecone, runVars, nreq, searchOut,
          chatVars, builderVars, segVars, uploadVars, retryVars>>

Statuses == {"uploaded", "processing", "ready", "failed"}

NoExc == [kind |-> "none", status |-> 0]
HTTPException(code) == [kind |-> "http", status |-> code]
OtherException == [kind |-> "exception", status |-> 0]

NoResult == [kind |-> "none"]
ProcessingResult(nseg, nwin) ==
    [kind |-> "ok", success |-> TRUE, segment_count |-> nseg, window_count |-> nwin]
Raised(e) == [kind |-> "raised", status |-> e.status]

NoSearch == [kind |-> "none"]

NoResponse == [chunks |-> <<>>, raises |-> FALSE]

\* no chat connection
ChatIdle ==
    /\ wpc = "none"
    /\ hexc = "none"
    /\ conn = "none"
    /\ transport = "none"
    /\ sent = <<>>
    /\ user_message = <<>>
    /\ search_results = <<>>
    /\ response = NoResponse
    /\ si = 0
    /\ full_response = <<>>
    /\ msgs = <<>>

\* no window building on its own
\* the defaults of create_overlapping_windows(segments, window_size, overlap)
DefaultArgs == [window_size |-> window_size, overlap |-> overlap]

BuilderIdle ==
    /\ given = <<>>
    /\ built = <<>>
    /\ upserted = {}
    /\ bpc = "none"
    /\ window_args = DefaultArgs

\* no transcript on its way
NoGroup == [text_parts |-> <<>>, start |-> <<>>, end |-> <<>>]

SegmenterIdle ==
    /\ source = "none"
    /\ transcript = <<>>
    /\ raw_segments = <<>>
    /\ strategy = "none"
    /\ gi = 0
    /\ current_group = NoGroup
    /\ smart_segments = <<>>
    /\ stored = <<>>
    /\ spc = "none"

NoUpload == [kind |-> "none"]

\* no upload-youtube request
UploadIdle ==
    /\ ureq = NoUpload
    /\ uresp = NoUpload
    /\ youtube_ids = [v \in VideoIds |-> <<>>]

\* no wrapped call under way
NoRetry == [kind |-> "none"]

RetryIdle ==
    /\ rt_args = NoRetry
    /\ rt_pc = "idle"
    /\ attempt = 0
    /\ current_delay = 0
    /\ last_exception = NoRetry
    /\ invocations = <<>>
    /\ slept = <<>>
    /\ rt_result = NoRetry

Init ==
    /\ cfg \in [token : BOOLEAN, worker : BOOLEAN, pinecone : BOOLEAN]
    /\ video_status = [v \in VideoIds |-> "absent"]
    /\ video_type = [v \in VideoIds |-> "none"]
    /\ segs = [v \in VideoIds |-> <<>>]
    /\ pinecone = [exists |-> FALSE, entries |-> {}]
    /\ pc = [r \in Runs |-> "idle"]
    /\ rvid = [r \in Runs |-> 0]
    /\ processed = [r \in Runs |-> <<>>]
    /\ pending = [r \in Runs |-> <<>>]
    /\ wins = [r \in Runs |-> <<>>]
    /\ tried = [r \in Runs |-> <<>>]
    /\ fetched = [r \in Runs |-> FALSE]
    /\ idx = [r \in Runs |-> "none"]
    /\ exc = [r \in Runs |-> NoExc]
    /\ result = [r \in Runs |-> NoResult]
    /\ nreq = 0
    /\ searchOut = NoSearch
    /\ ChatIdle
    /\ BuilderIdle
    /\ SegmenterIdle
    /\ UploadIdle
    /\ RetryIdle

AllIdle == \A r \in Runs : pc[r] = "idle"

(***************************************************************************)
(* The relational session: db.commit() writes the session's pending rows   *)
(* together with the status assigned to the video object.                  *)
(***************************************************************************)
CommitRows(table, v, rows) == [table EXCEPT ![v] = @ \o rows]

\* query(VideoSegmentModel).filter(video_id == v).order_by(start_time).all():
\* every ordering of the rows by non-decreasing start_time (ties unspecified)
OrderByStartTime(rows) ==
    { [i \in 1..Len(rows) |-> rows[p[i]]] : p \in
        { q \in Perms(Len(rows)) :
            \A i, j \in 1..Len(rows) : i < j => rows[q[i]].start <= rows[q[j]].start } }

(***************************************************************************)
(* Requests.                                                               *)
(***************************************************************************)
\* routes/video_routes.py complete_upload / upload_video: a new uploaded video
UploadFile(v) ==
    /\ nreq < MaxRequests
    /\ video_status[v] = "absent"
    /\ video_status' = [video_status EXCEPT ![v] = "uploaded"]
    /\ video_type' = [video_type EXCEPT ![v] = "uploaded"]
    /\ nreq' = nreq + 1
    /\ UNCHANGED <<cfg, segs, pinecone, runVars, searchOut, chatVars, builderVars, segVars, uploadVars, retryVars>>

StartRun(r, v) ==
    /\ pc' = [pc EXCEPT ![r] = "begin"]
    /\ rvid' = [rvid EXCEPT ![r] = v]
    /\ processed' = [processed EXCEPT ![r] = <<>>]
    /\ pending' = [pending EXCEPT ![r] = <<>>]
    /\ wins' = [wins EXCEPT ![r] = <<>>]
    /\ tried' = [tried EXCEPT ![r] = <<>>]
    /\ fetched' = [fetched EXCEPT ![r] = FALSE]
    /\ idx' = [idx EXCEPT ![r] = "none"]
    /\ exc' = [exc EXCEPT ![r] = NoExc]
    /\ result' = [result EXCEPT ![r] = NoResult]

\* routes/youtube_routes.py upload_youtube_video, for a YouTube id not yet
\* stored: the row is committed with status "uploaded", then process_video runs
UploadYouTube(r, v) ==
    /\ nreq < MaxRequests
    /\ pc[r] = "idle"
    /\ video_status[v] = "absent"
    /\ video_status' = [video_status EXCEPT ![v] = "uploaded"]
    /\ video_type' = [video_type EXCEPT ![v] = "youtube"]
    /\ StartRun(r, v)
    /\ nreq' = nreq + 1
    /\ UNCHANGED <<cfg, segs, pinecone, searchOut, chatVars, builderVars, segVars, uploadVars, retryVars>>

\* routes/video_routes.py process_video_endpoint: POST /process {video_id}
ProcessRequest(r, v) ==
    /\ nreq < MaxRequests
    /\ pc[r] = "idle"
    /\ StartRun(r, v)
    /\ nreq' = nreq + 1
    /\ UNCHANGED <<cfg, dbVars, pinecone, searchOut, chatVars, builderVars, segVars, uploadVars, retryVars>>

(***************************************************************************)
(* fetch_youtube_transcript (youtube_service.py): the fallback chain.      *)
(* A strategy's outcome is what the remote side makes of it:               *)
(*   [kind |-> "ok", segments |-> ...]   the strategy returned segments    *)
(*   [kind |-> "raised", exc |-> e]      the strategy raised e             *)
(***************************************************************************)
Ok(segments) == [kind |-> "ok", segments |-> segments]
Raises(e) == [kind |-> "raised", exc |-> e]

\* fetch_youtube_transcript_via_third_party: HTTP 429 is re-raised as an
\* HTTPException(429), every other failure as a plain Exception
ThirdPartyOutcomes ==
    {Ok(t) : t \in Transcripts} \cup {Raises(HTTPException(429)), Raises(OtherException)}

\* fetch_youtube_transcript_via_worker: every failure is a plain Exception
WorkerOutcomes == {Ok(t) : t \in Transcripts} \cup {Raises(OtherException)}

\* fetch_youtube_transcript_smart: every failure is an HTTPException(500)
DirectOutcomes == {Ok(t) : t \in Transcripts} \cup {Raises(HTTPException(500))}

\* the strategy the chain turns to first, and after strategy s has raised:
\* the if api_token / if worker_url tests of fetch_youtube_transcript
FirstStrategy(c) ==
    IF c.token THEN "third_party" ELSE IF c.worker THEN "worker" ELSE "direct"

\* variant: the worker is passed over after the third-party API has raised
StrategyAfterSkippingWorker(s, c) == "direct"

StrategyAfter(s, c) ==
    IF s = "third_party" THEN (IF c.worker THEN "worker" ELSE "direct") ELSE "direct"

\* "except Exception" around the third-party and the worker call catches every
\* exception, HTTPException among them (it derives from Exception); only the
\* direct strategy's exception leaves the chain
Caught(s, e) == s \in {"third_party", "worker"}

\* what leaves fetch_youtube_transcript when the direct strategy raised e:
\* an HTTPException as it is, anything else as HTTPException(500)
ChainError(e) == IF e.kind = "http" THEN e ELSE HTTPException(500)

(***************************************************************************)
(* process_video (video_service.py)                                        *)
(***************************************************************************)
\* variant: the existing rows are not looked at
HasExistingSegmentsNever(rows) == FALSE

\* lines 104-108: existing_segments > 0
HasExistingSegments(rows) == Len(rows) > 0

\* lines 88-124: look the video up, commit status "processing", then branch
Begin(r) ==
    /\ pc[r] = "begin"
    /\ LET v == rvid[r] IN
       IF video_status[v] = "absent"
       THEN /\ exc' = [exc EXCEPT ![r] = HTTPException(404)]
            /\ pc' = [pc EXCEPT ![r] = "except"]
            /\ UNCHANGED <<video_status, processed, fetched>>
       ELSE /\ video_status' = [video_status EXCEPT ![v] = "processing"]
            /\ IF video_type[v] = "youtube"
               THEN IF HasExistingSegments(segs[v])
                    THEN /\ \E rows \in OrderByStartTime(segs[v]) :
                                processed' = [processed EXCEPT ![r] = rows]
                         /\ pc' = [pc EXCEPT ![r] = "windows"]
                         /\ UNCHANGED fetched
                    ELSE /\ pc' = [pc EXCEPT ![r] = FirstStrategy(cfg)]
                         /\ fetched' = [fetched EXCEPT ![r] = TRUE]
                         /\ UNCHANGED processed
               ELSE /\ pc' = [pc EXCEPT ![r] = "whisper"]
                    /\ UNCHANGED <<processed, fetched>>
            /\ UNCHANGED exc
    /\ UNCHANGED <<cfg, video_type, segs, pinecone, rvid, pending, wins, tried,
                   idx, result, nreq, searchOut, chatVars, builderVars, segVars, uploadVars, retryVars>>

\* the record kept of one call of a strategy
Tried(s, o) ==
    [strategy |-> s,
     kind |-> o.kind,
     status |-> IF o.kind = "ok" THEN 0 ELSE o.exc.status,
     segments |-> IF o.kind = "ok" THEN o.segments ELSE <<>>]

\* one strategy of the chain is called and returns or raises
Attempt(r, s, o) ==
    /\ pc[r] = s
    /\ tried' = [tried EXCEPT ![r] = Append(@, Tried(s, o))]
    /\ IF o.kind = "ok"
       THEN /\ processed' = [processed EXCEPT ![r] = o.segments]
            /\ pc' = [pc EXCEPT ![r] = "persist"]
            /\ UNCHANGED exc
       ELSE IF Caught(s, o.exc)
       THEN /\ pc' = [pc EXCEPT ![r] = StrategyAfter(s, cfg)]
            /\ UNCHANGED <<processed, exc>>
       ELSE /\ exc' = [exc EXCEPT ![r] = ChainError(o.exc)]
            /\ pc' = [pc EXCEPT ![r] = "except"]
            /\ UNCHANGED processed
    /\ UNCHANGED <<cfg, dbVars, pinecone, rvid, pending, wins, fetched, idx, result,
                   nreq, searchOut, chatVars, builderVars, segVars, uploadVars, retryVars>>

TryThirdParty(r) == \E o \in ThirdPartyOutcomes : Attempt(r, "third_party", o)

TryWorker(r) == \E o \in WorkerOutcomes : Attempt(r, "worker", o)

TryDirect(r) == \E o \in DirectOutcomes : Attempt(r, "direct", o)

\* variant: the loop stops after the first segment
AddAllFirstOnly(sessionRows, segments) ==
    sessionRows \o SubSeq(segments, 1, Min(1, Len(segments)))

\* lines 127-134: every fetched segment is added to the session
AddAll(sessionRows, segments) == sessionRows \o segments

PersistSegments(r) ==
    /\ pc[r] = "persist"
    /\ pending' = [pending EXCEPT ![r] = AddAll(@, processed[r])]
    /\ pc' = [pc EXCEPT ![r] = "windows"]
    /\ UNCHANGED <<cfg, dbVars, pinecone, rvid, processed, wins, tried, fetched, idx,
                   exc, result, nreq, searchOut, chatVars, builderVars, segVars, uploadVars, retryVars>>

\* process_uploaded_video: the speech-to-text result is converted and every
\* segment added to the session; a missing file or a failed audio extraction
\* raises an HTTPException, a failed download or transcription another exception
WhisperOutcomes ==
    {Ok(t) : t \in Transcripts}
        \cup {Raises(HTTPException(404)), Raises(HTTPException(500)), Raises(OtherException)}

Whisper(r) ==
    /\ pc[r] = "whisper"
    /\ \E o \in WhisperOutcomes :
        IF o.kind = "ok"
        THEN /\ processed' = [processed EXCEPT ![r] = o.segments]
             /\ pending' = [pending EXCEPT ![r] = AddAll(@, o.segments)]
             /\ pc' = [pc EXCEPT ![r] = "windows"]
             /\ UNCHANGED exc
        ELSE /\ exc' = [exc EXCEPT ![r] = o.exc]
             /\ pc' = [pc EXCEPT ![r] = "except"]
             /\ UNCHANGED <<processed, pending>>
    /\ UNCHANGED <<cfg, dbVars, pinecone, rvid, wins, tried, fetched, idx, result,
                   nreq, searchOut, chatVars, builderVars, segVars, uploadVars, retryVars>>

\* line 146
BuildWindows(r) ==
    /\ pc[r] = "windows"
    /\ wins' = [wins EXCEPT ![r] = create_overlapping_windows(processed[r], window_size, overlap)]
    /\ pc' = [pc EXCEPT ![r] = "index"]
    /\ UNCHANGED <<cfg, dbVars, pinecone, rvid, processed, pending, tried, fetched,
                   idx, exc, result, nreq, searchOut, chatVars, builderVars, segVars, uploadVars, retryVars>>

(***************************************************************************)
(* store_embeddings_in_pinecone (video_service.py)                         *)
(***************************************************************************)
NonBlankWindows(windows) == {i \in 1..Len(windows) : Strip(windows[i].text) # <<>>}

\* lines 293-313: one vector per non-blank window, id "{video_id}-{i}" with i
\* the window's position in the list, counted from 0
VectorsToUpsert(video_id, windows) ==
    { [id |-> <<video_id, i - 1>>,
       video_id |-> video_id,
       text |-> windows[i].text,
       start_time |-> windows[i].start_time,
       end_time |-> windows[i].end_time] : i \in NonBlankWindows(windows) }

\* variant: the upsert clears the video's entries first
UpsertClearingVideo(entries, vectors) ==
    {e \in entries : \A x \in vectors : x.video_id # e.video_id} \cup vectors

\* index.upsert: an entry with the id of a new vector is replaced
Upsert(entries, vectors) ==
    {e \in entries : \A x \in vectors : x.id # e.id} \cup vectors

\* what can happen inside store_embeddings_in_pinecone:
\*   "unconfigured"   PINECONE_API_KEY unset or the placeholder
\*   "setup_raises"   the client, list_indexes or create_index raises
\*   "embed_raises"   an embeddings.create call raises
\*   "upsert_raises"  index.upsert raises
\*   "ok"             nothing raises
IndexOutcomes(windows, c) ==
    IF ~c.pinecone THEN {"unconfigured"}
    ELSE {"setup_raises", "ok"}
            \cup (IF NonBlankWindows(windows) # {} THEN {"embed_raises", "upsert_raises"} ELSE {})

AfterStore(pine, video_id, windows, o) ==
    IF o \in {"unconfigured", "setup_raises"} THEN pine
    ELSE IF o \in {"embed_raises", "upsert_raises"} THEN [pine EXCEPT !.exists = TRUE]
    ELSE [exists |-> TRUE, entries |-> Upsert(pine.entries, VectorsToUpsert(video_id, windows))]

\* variant: the handler re-raises what it caught
IndexErrorPropagatesReraise(o) == o \notin {"unconfigured", "ok"}

\* variant: a failed upsert is re-raised
IndexErrorPropagatesOnUpsert(o) == o = "upsert_raises"

\* lines 319-321: "except Exception" logs and returns; nothing is re-raised
IndexErrorPropagates(o) == FALSE

\* line 153
StoreEmbeddings(r) ==
    /\ pc[r] = "index"
    /\ \E o \in IndexOutcomes(wins[r], cfg) :
        /\ idx' = [idx EXCEPT ![r] = o]
        /\ pinecone' = AfterStore(pinecone, rvid[r], wins[r], o)
        /\ IF IndexErrorPropagates(o)
           THEN /\ exc' = [exc EXCEPT ![r] = OtherException]
                /\ pc' = [pc EXCEPT ![r] = "except"]
           ELSE /\ pc' = [pc EXCEPT ![r] = "ready"]
                /\ UNCHANGED exc
    /\ UNCHANGED <<cfg, dbVars, rvid, processed, pending, wins, tried, fetched,
                   result, nreq, searchOut, chatVars, builderVars, segVars, uploadVars, retryVars>>

\* lines 155-163: status "ready" is committed with the session's rows and the
\* counts are returned
MarkReady(r) ==
    /\ pc[r] = "ready"
    /\ video_status' = [video_status EXCEPT ![rvid[r]] = "ready"]
    /\ segs' = CommitRows(segs, rvid[r], pending[r])
    /\ pending' = [pending EXCEPT ![r] = <<>>]
    /\ result' = [result EXCEPT ![r] = ProcessingResult(Len(processed[r]), Len(wins[r]))]
    /\ pc' = [pc EXCEPT ![r] = "done"]
    /\ UNCHANGED <<cfg, video_type, pinecone, rvid, processed, wins, tried, fetched,
                   idx, exc, nreq, searchOut, chatVars, builderVars, segVars, uploadVars, retryVars>>

\* variants: a status outside the four, and the status left as it was
ErrorStatusMisspelt == "error"

ErrorStatusLeftProcessing == "processing"

\* lines 165-180: both except clauses look the video up again and, when it is
\* there, commit status "failed"; an HTTPException is re-raised as it is, any
\* other exception as HTTPException(500)
ErrorStatus == "failed"

Reraised(e) == IF e.kind = "http" THEN Raised(e) ELSE Raised(HTTPException(500))

HandleException(r) ==
    /\ pc[r] = "except"
    /\ IF video_status[rvid[r]] # "absent"
       THEN /\ video_status' = [video_status EXCEPT ![rvid[r]] = ErrorStatus]
            /\ segs' = CommitRows(segs, rvid[r], pending[r])
            /\ pending' = [pending EXCEPT ![r] = <<>>]
       ELSE UNCHANGED <<video_status, segs, pending>>
    /\ result' = [result EXCEPT ![r] = Reraised(exc[r])]
    /\ pc' = [pc EXCEPT ![r] = "done"]
    /\ UNCHANGED <<cfg, video_type, pinecone, rvid, processed, wins, tried, fetched,
                   idx, exc, nreq, searchOut, chatVars, builderVars, segVars, uploadVars, retryVars>>

\* the endpoint answers and the request is over
Respond(r) ==
    /\ pc[r] = "done"
    /\ pc' = [pc EXCEPT ![r] = "idle"]
    /\ rvid' = [rvid EXCEPT ![r] = 0]
    /\ processed' = [processed EXCEPT ![r] = <<>>]
    /\ pending' = [pending EXCEPT ![r] = <<>>]
    /\ wins' = [wins EXCEPT ![r] = <<>>]
    /\ tried' = [tried EXCEPT ![r] = <<>>]
    /\ fetched' = [fetched EXCEPT ![r] = FALSE]
    /\ idx' = [idx EXCEPT ![r] = "none"]
    /\ exc' = [exc EXCEPT ![r] = NoExc]
    /\ result' = [result EXCEPT ![r] = NoResult]
    /\ UNCHANGED <<cfg, dbVars, pinecone, nreq, searchOut, chatVars, builderVars, segVars, uploadVars, retryVars>>

RunStep(r) ==
    \/ Begin(r)
    \/ TryThirdParty(r)
    \/ TryWorker(r)
    \/ TryDirect(r)
    \/ PersistSegments(r)
    \/ Whisper(r)
    \/ BuildWindows(r)
    \/ StoreEmbeddings(r)
    \/ MarkReady(r)
    \/ HandleException(r)
    \/ Respond(r)

(***************************************************************************)
(* Spec: requests arrive one after the other; a request starts when the    *)
(* one before it has been answered.                                        *)
(***************************************************************************)
SeqUploadFile == \E v \in VideoIds : AllIdle /\ UploadFile(v)

SeqUploadYouTube == \E v \in VideoIds : AllIdle /\ UploadYouTube(1, v)

SeqProcess == \E v \in VideoIds : AllIdle /\ ProcessRequest(1, v)

Next ==
    \/ SeqUploadFile
    \/ SeqUploadYouTube
    \/ SeqProcess
    \/ \E r \in Runs : RunStep(r)

Spec == Init /\ [][Next]_vars

(***************************************************************************)
(* unified_video_search (search_service.py)                                *)
(***************************************************************************)
\* case folding of ILIKE, on the letters the model's texts use
Lower(c) ==
    CASE c = "F" -> "f"
      [] c = "I" -> "i"
      [] c = "H" -> "h"
      [] c = "T" -> "t"
      [] OTHER -> c

\* text LIKE pattern: "%" stands for any run of characters, "_" for any one
RECURSIVE LikeMatch(_, _)
LikeMatch(text, pattern) ==
    IF pattern = <<>> THEN text = <<>>
    ELSE IF pattern[1] = "%"
         THEN LikeMatch(text, Tail(pattern))
                \/ (text # <<>> /\ LikeMatch(Tail(text), pattern))
    ELSE IF pattern[1] = "_"
         THEN text # <<>> /\ LikeMatch(Tail(text), Tail(pattern))
    ELSE /\ text # <<>>
         /\ Lower(text[1]) = Lower(pattern[1])
         /\ LikeMatch(Tail(text), Tail(pattern))

\* VideoSegmentModel.text.ilike(f"%{query}%")
ILike(text, query) == LikeMatch(text, <<"%">> \o query \o <<"%">>)

\* str.split(): the maximal runs of non-whitespace characters; the words of
\* the two halves of the text, the word that runs across the middle put
\* together again
RECURSIVE Split(_)
Split(t) ==
    IF t = <<>> THEN <<>>
    ELSE IF Len(t) = 1 THEN (IF IsSpace(t[1]) THEN <<>> ELSE <<t>>)
    ELSE LET h == Len(t) \div 2
             a == Split(SubSeq(t, 1, h))
             b == Split(SubSeq(t, h + 1, Len(t)))
         IN  IF ~IsSpace(t[h]) /\ ~IsSpace(t[h + 1])
             THEN SubSeq(a, 1, Len(a) - 1) \o <<a[Len(a)] \o b[1]>> \o Tail(b)
             ELSE a \o b

Limit(rows, n) == SubSeq(rows, 1, Min(n, Len(rows)))

SearchTopK == 3
ChatTopK == 5
TextConfidence == 70
MinWordLen == 3
WordLimit == 3

\* stage 2, lines 88-91: ordered is the video's rows in start_time order
ExactMatches(ordered, query, top_k) ==
    Limit(SelectSeq(ordered, LAMBDA row : ILike(row.text, query)), top_k)

\* stage 3, lines 95-104: the loop over the words, from word i on
RECURSIVE WordMatches(_, _, _, _, _)
WordMatches(ordered, words, i, top_k, acc) ==
    IF i > Len(words) THEN acc
    ELSE IF Len(words[i]) > MinWordLen
         THEN LET word_segments ==
                     Limit(SelectSeq(ordered, LAMBDA row : ILike(row.text, words[i])), WordLimit)
                  segments == acc \o word_segments
              IN  IF Len(segments) >= top_k THEN segments
                  ELSE WordMatches(ordered, words, i + 1, top_k, segments)
    ELSE WordMatches(ordered, words, i + 1, top_k, acc)

\* line 94: the word stage is entered
EntersWordStage(segments, query) == segments = <<>> /\ Len(Split(query)) > 1

\* variant: the text stages score their matches 0.8
TextResultScoredHigher(row) ==
    [text |-> row.text, start_time |-> row.start, end_time |-> row.end,
     confidence |-> 80]

\* lines 106-114
TextResult(row) ==
    [text |-> row.text, start_time |-> row.start, end_time |-> row.end,
     confidence |-> TextConfidence]

\* lines 58-66: hits of the index query, blank texts dropped
SemanticResult(hit) ==
    [text |-> hit.entry.text, start_time |-> hit.entry.start_time,
     end_time |-> hit.entry.end_time, confidence |-> hit.score]

SemanticResults(hits) ==
    LET kept == SelectSeq(hits, LAMBDA h : Strip(h.entry.text) # <<>>)
    IN  [i \in 1..Len(kept) |-> SemanticResult(kept[i])]

\* what the semantic stage can meet:
\*   "unconfigured"  PINECONE_API_KEY unset or the placeholder
\*   "setup_raises"  the clients or list_indexes raise
\*   "no_index"      the index name is not among list_indexes
\*   "embed_raises"  embeddings.create raises
\*   "query_raises"  index.query raises
\*   "ok"            index.query returns hits
SemanticOutcomes(c, pine) ==
    IF ~c.pinecone THEN {"unconfigured"}
    ELSE {"setup_raises"}
            \cup (IF pine.exists THEN {"embed_raises", "query_raises", "ok"} ELSE {"no_index"})

\* variant: the query carries no filter
FilterEntriesOfAnyVideo(entries, v) == entries

\* index.query(filter={"video_id": v}, top_k): the top_k nearest entries of the
\* video in similarity order, which is any order as far as the model knows
FilterEntries(entries, v) == {e \in entries : e.video_id = v}

QueryHits(pine, v, top_k) ==
    LET mine == FilterEntries(pine.entries, v)
        n == Min(top_k, Cardinality(mine))
    IN  { [i \in 1..n |-> [entry |-> f[i], score |-> 100 - 10 * i]] :
            f \in {g \in [1..n -> mine] : \A i, j \in 1..n : i # j => g[i] # g[j]} }

\* what the database can do: answer, or raise in the exact or in a word query
DbOutcomes == {"ok", "exact_raises", "word_raises"}

Returned(items, stages) == [kind |-> "returned", items |-> items, stages |-> stages]

\* variant: the outer handler lets the exception go
OuterHandlerReraise(stages) == [kind |-> "raised", items |-> <<>>, stages |-> stages]

\* lines 122-124: the outer handler returns the empty list
OuterHandler(stages) == Returned(<<>>, stages)

\* variant: no inner handler, the exception reaches the outer one
SemanticErrorUncaught(sem) == FALSE

\* lines 81-82: the inner handler logs; the function goes on to the database
SemanticErrorCaught(sem) == TRUE

\* lines 86-120: the database stages
DatabaseSearch(ordered, query, top_k, dbq, stages) ==
    IF dbq = "exact_raises" THEN OuterHandler(stages \o <<"exact">>)
    ELSE LET exact == ExactMatches(ordered, query, top_k) IN
         IF EntersWordStage(exact, query)
         THEN IF dbq = "word_raises" /\ \E i \in 1..Len(Split(query)) : Len(Split(query)[i]) > MinWordLen
              THEN OuterHandler(stages \o <<"exact", "words">>)
              ELSE LET segments == WordMatches(ordered, Split(query), 1, top_k, <<>>)
                   IN  Returned([i \in 1..Len(segments) |-> TextResult(segments[i])],
                                stages \o <<"exact", "words">>)
         ELSE Returned([i \in 1..Len(exact) |-> TextResult(exact[i])], stages \o <<"exact">>)

\* variant: a semantic stage that found nothing hands over to the database
unified_video_search_EmptyFallsThrough(ordered, c, query, top_k, sem, hits, dbq) ==
    IF sem = "unconfigured" THEN DatabaseSearch(ordered, query, top_k, dbq, <<>>)
    ELSE IF sem = "ok" /\ SemanticResults(hits) # <<>>
         THEN Returned(SemanticResults(hits), <<"semantic">>)
    ELSE IF sem \in {"ok", "no_index"} \/ SemanticErrorCaught(sem)
         THEN DatabaseSearch(ordered, query, top_k, dbq, <<"semantic">>)
    ELSE OuterHandler(<<"semantic">>)

\* the whole function; sem, hits and dbq are what the collaborators do, ordered
\* is the order in which the database yields the video's rows by start_time
unified_video_search(ordered, c, query, top_k, sem, hits, dbq) ==
    IF sem = "unconfigured" THEN DatabaseSearch(ordered, query, top_k, dbq, <<>>)
    ELSE IF sem = "ok" THEN Returned(SemanticResults(hits), <<"semantic">>)
    ELSE IF sem = "no_index" \/ SemanticErrorCaught(sem)
         THEN DatabaseSearch(ordered, query, top_k, dbq, <<"semantic">>)
    ELSE OuterHandler(<<"semantic">>)

\* routes/search_routes.py search_video: the result list as the response, or
\* HTTP 500 when the search raised
search_video(out) ==
    IF out.kind = "returned" THEN [status |-> 200, body |-> out.items]
    ELSE [status |-> 500, body |-> <<>>]

SearchRecord(via, v, query, top_k, sem, dbq, ordered, out) ==
    [kind |-> "searched", via |-> via, video_id |-> v, query |-> query, top_k |-> top_k,
     sem |-> sem, dbq |-> dbq, ordered |-> ordered, out |-> out,
     response |-> IF via = "endpoint" THEN search_video(out) ELSE [status |-> 0, body |-> <<>>]]

Queries ==
    { <<"f", "i", "n", "e">>,
      <<"F", "I", "N", "E">>,
      <<"f", "i", "n", "e", " ", "t", "o", "d", "a", "y">>,
      <<"a", "r", "e", " ", "f", "i", "n", "e">>,
      <<"n", "o", "p", "e">>,
      <<"f", "_", "n", "e", " ", "n", "o", "p", "e">> }

TopKs == {1, 2, SearchTopK, ChatTopK}

\* one search is looked at at a time: the next one starts when the answer of
\* the one before has been taken (SearchAnswered)
SearchCall(via, v, query, top_k) ==
    /\ searchOut = NoSearch
    /\ \E sem \in SemanticOutcomes(cfg, pinecone), dbq \in DbOutcomes :
        \E ordered \in OrderByStartTime(segs[v]) :
            \E hits \in IF sem = "ok" THEN QueryHits(pinecone, v, top_k) ELSE {<<>>} :
                searchOut' = SearchRecord(via, v, query, top_k, sem, dbq, ordered,
                                unified_video_search(ordered, cfg, query, top_k, sem, hits, dbq))

\* POST /search: unified_video_search with top_k = 3
SearchVideo ==
    /\ \E v \in VideoIds, query \in Queries : SearchCall("endpoint", v, query, SearchTopK)
    /\ UNCHANGED <<cfg, dbVars, pinecone, runVars, nreq, chatVars, builderVars, segVars, uploadVars, retryVars>>

\* unified_video_search called as a function (by the chat handler with
\* top_k = 5, or with any other top_k)
UnifiedSearch ==
    /\ \E v \in VideoIds, query \in Queries, top_k \in TopKs :
            SearchCall("function", v, query, top_k)
    /\ UNCHANGED <<cfg, dbVars, pinecone, runVars, nreq, chatVars, builderVars, segVars, uploadVars, retryVars>>

\* the caller has the answer
SearchAnswered ==
    /\ searchOut # NoSearch
    /\ searchOut' = NoSearch
    /\ UNCHANGED <<cfg, dbVars, pinecone, runVars, nreq, chatVars, builderVars, segVars, uploadVars, retryVars>>

(***************************************************************************)
(* SpecSearch: searches over a store and an index as processing runs leave *)
(* them.                                                                   *)
(***************************************************************************)
RowToday == Seg(<<"H", "o", "w", " ", "a", "r", "e", " ", "y", "o", "u", " ", "t", "o", "d", "a", "y">>, 1 * TicksPerSec, 2 * TicksPerSec)
RowFine == Seg(<<"I", " ", "a", "m", " ", "f", "i", "n", "e", ".">>, 3 * TicksPerSec, 4 * TicksPerSec)
RowOther == Seg(<<"f", "i", "n", "e", " ", "t", "o", "d", "a", "y">>, 0, 2 * TicksPerSec)
RowSoFine == Seg(<<"s", "o", " ", "f", "i", "n", "e">>, 5 * TicksPerSec, 6 * TicksPerSec)
RowTodayToo == Seg(<<"t", "o", "d", "a", "y", " ", "t", "o", "o">>, 7 * TicksPerSec, 8 * TicksPerSec)

RowsOf(rows1, rows2) ==
    [v \in VideoIds |-> IF v = 1 THEN rows1 ELSE IF v = 2 THEN rows2 ELSE <<>>]

DbStates ==
    { RowsOf(<<>>, <<>>),
      RowsOf(<<RowToday, RowFine>>, <<RowOther>>),
      RowsOf(<<RowFine, RowToday>>, <<>>),
      RowsOf(<<RowToday, RowFine, RowSoFine, RowTodayToo>>, <<>>) }

\* the index entries a processing run writes for every video of the store
IndexOf(table) ==
    UNION { VectorsToUpsert(v, create_overlapping_windows(table[v], window_size, overlap)) :
                v \in VideoIds }

IndexStates(table) ==
    { [exists |-> FALSE, entries |-> {}],
      [exists |-> TRUE, entries |-> {}],
      [exists |-> TRUE, entries |-> IndexOf(table)] }

InitSearch ==
    /\ cfg \in [token : {FALSE}, worker : {FALSE}, pinecone : BOOLEAN]
    /\ segs \in DbStates
    /\ video_status = [v \in VideoIds |-> IF segs[v] # <<>> THEN "ready" ELSE "absent"]
    /\ video_type = [v \in VideoIds |-> IF segs[v] # <<>> THEN "uploaded" ELSE "none"]
    /\ pinecone \in IndexStates(segs)
    /\ pc = [r \in Runs |-> "idle"]
    /\ rvid = [r \in Runs |-> 0]
    /\ processed = [r \in Runs |-> <<>>]
    /\ pending = [r \in Runs |-> <<>>]
    /\ wins = [r \in Runs |-> <<>>]
    /\ tried = [r \in Runs |-> <<>>]
    /\ fetched = [r \in Runs |-> FALSE]
    /\ idx = [r \in Runs |-> "none"]
    /\ exc = [r \in Runs |-> NoExc]
    /\ result = [r \in Runs |-> NoResult]
    /\ nreq = 0
    /\ searchOut = NoSearch
    /\ ChatIdle
    /\ BuilderIdle
    /\ SegmenterIdle
    /\ UploadIdle
    /\ RetryIdle

NextSearch == SearchVideo \/ UnifiedSearch \/ SearchAnswered

SpecSearch == InitSearch /\ [][NextSearch]_vars

(***************************************************************************)
(* handle_chat_websocket (search_service.py) under the route               *)
(* chat_websocket (routes/search_routes.py): one connection.               *)
(***************************************************************************)
\* the video of the connection (the path parameter video_id)
ChatVideo == CHOOSE v \in VideoIds : \A w \in VideoIds : v <= w

Payload(json, field, text) == [json |-> json, field |-> field, text |-> text]

\* text frames a client can send: {"message": "fine"}, {"message": " "}, {},
\* {"message": 5} and a frame that is not JSON
Payloads ==
    { Payload("object", "string", <<"f", "i", "n", "e">>),
      Payload("object", "string", <<" ">>),
      Payload("object", "absent", <<>>),
      Payload("object", "number", <<>>),
      Payload("invalid", "absent", <<>>) }

\* lines 133-136: json.loads raises on a frame that is not JSON, .get raises
\* on a JSON value that is not an object, .strip raises on a message that is
\* not a string; a missing key reads as ""
ParseMessage(payload) ==
    IF payload.json # "object" \/ payload.field = "number"
    THEN [raises |-> TRUE, message |-> <<>>]
    ELSE [raises |-> FALSE,
          message |-> IF payload.field = "absent" THEN <<>> ELSE payload.text]

\* line 136
IsBlank(message) == Strip(message) = <<>>

\* lines 158-177: the results with non-blank text make the context
ContextSegments(results) == SelectSeq(results, LAMBDA r : Strip(r.text) # <<>>)

\* the events of the protocol; msg is the number of the message the event
\* was sent for
ChunkEvent(m, content) == [msg |-> m, type |-> "chunk", content |-> content]

CompleteEvent(m, full, results) ==
    [msg |-> m, type |-> "complete", full_response |-> full,
     video_context_used |-> ContextSegments(results) # <<>>,
     segments_found |-> Len(ContextSegments(results))]

ErrorEvent(m, message) == [msg |-> m, type |-> "error", message |-> message]

\* the content of the k-th chunk of a language-model stream: "a", nothing
\* (delta.content is None), "b", and so on
LLMChunk(k) == IF k % 3 = 1 THEN <<"a">> ELSE IF k % 3 = 2 THEN <<>> ELSE <<"b">>

\* a stream: the chunks it yields, and whether the iteration then raises
\* instead of ending
Responses ==
    { [chunks |-> [k \in 1..n |-> LLMChunk(k)], raises |-> f] :
        n \in 0..MaxChunks, f \in BOOLEAN }

Msg(payload, handled) == [payload |-> payload, handled |-> handled, failure |-> "none"]

Failed(log, failure) == [log EXCEPT ![Len(log)].failure = failure]

\* what a send on a dropped transport raises
SendErrors == {"disconnect", "other"}

\* routes/search_routes.py lines 64-76: accept, then run the handler
ChatConnect ==
    /\ wpc = "none"
    /\ wpc' = "receive"
    /\ conn' = "open"
    /\ transport' = "open"
    /\ UNCHANGED <<hexc, sent, user_message, search_results, response, si,
                   full_response, msgs>>
    /\ UNCHANGED <<cfg, dbVars, pinecone, runVars, nreq, searchOut, builderVars, segVars, uploadVars, retryVars>>

\* the client goes away
ClientDisconnect ==
    /\ transport = "open"
    /\ wpc \notin {"none", "gone"}
    /\ transport' = "dropped"
    /\ UNCHANGED <<wpc, hexc, conn, sent, user_message, search_results, response, si,
                   full_response, msgs>>
    /\ UNCHANGED <<cfg, dbVars, pinecone, runVars, nreq, searchOut, builderVars, segVars, uploadVars, retryVars>>

\* lines 131-139: receive_text, json.loads, the blank test
ChatReceive ==
    /\ wpc = "receive"
    /\ IF transport = "dropped"
       THEN /\ wpc' = "raise"
            /\ hexc' = "disconnect"
            /\ UNCHANGED <<user_message, msgs>>
       ELSE /\ Len(msgs) < MaxMessages
            /\ \E payload \in Payloads :
                LET p == ParseMessage(payload) IN
                IF p.raises
                THEN /\ msgs' = Append(msgs, [Msg(payload, "raised") EXCEPT !.failure = "payload"])
                     /\ wpc' = "raise"
                     /\ hexc' = "other"
                     /\ UNCHANGED user_message
                ELSE IF IsBlank(p.message)
                THEN /\ msgs' = Append(msgs, Msg(payload, "blank"))
                     /\ user_message' = p.message
                     /\ UNCHANGED <<wpc, hexc>>
                ELSE /\ msgs' = Append(msgs, Msg(payload, "message"))
                     /\ user_message' = p.message
                     /\ wpc' = "search"
                     /\ UNCHANGED hexc
    /\ UNCHANGED <<conn, transport, sent, search_results, response, si, full_response>>
    /\ UNCHANGED <<cfg, dbVars, pinecone, runVars, nreq, searchOut, builderVars, segVars, uploadVars, retryVars>>

\* lines 142-148: the search with top_k = 5; a search that raises counts as
\* no results
ChatSearch ==
    /\ wpc = "search"
    /\ \E sem \in SemanticOutcomes(cfg, pinecone), dbq \in DbOutcomes :
        \E ordered \in OrderByStartTime(segs[ChatVideo]) :
            \E hits \in IF sem = "ok" THEN QueryHits(pinecone, ChatVideo, ChatTopK) ELSE {<<>>} :
                LET out == unified_video_search(ordered, cfg, user_message, ChatTopK,
                                                sem, hits, dbq)
                IN  IF out.kind = "returned"
                    THEN search_results' = out.items /\ UNCHANGED msgs
                    ELSE search_results' = <<>> /\ msgs' = Failed(msgs, "search")
    /\ wpc' = "create"
    /\ UNCHANGED <<hexc, conn, transport, sent, user_message, response, si, full_response>>
    /\ UNCHANGED <<cfg, dbVars, pinecone, runVars, nreq, searchOut, builderVars, segVars, uploadVars, retryVars>>

\* variant: the handler of a failed call raises again
AfterErrorEventReraise == "raise"

\* lines 277-280 and 284-287: after the error event the loop goes on
AfterErrorEvent == "receive"

\* lines 204-218: chat.completions.create(stream=True) raises or returns the
\* stream
ChatCreate ==
    /\ wpc = "create"
    /\ \/ /\ wpc' = "api_except"
          /\ msgs' = Failed(msgs, "create")
          /\ UNCHANGED <<response, si, full_response>>
       \/ \E r \in Responses :
            /\ response' = r
            /\ UNCHANGED msgs
            /\ si' = 0
            /\ full_response' = <<>>
            /\ wpc' = "stream"
    /\ UNCHANGED <<hexc, conn, transport, sent, user_message, search_results>>
    /\ UNCHANGED <<cfg, dbVars, pinecone, runVars, nreq, searchOut, builderVars, segVars, uploadVars, retryVars>>

\* variant: each chunk replaces what was accumulated
AccumulateLast(full, content) == content

\* line 223
Accumulate(full, content) == full \o content

\* variant: a failed stream is dropped without a word
AfterStreamRaisesSilently == "receive"

\* lines 275-276: the handler of the streaming block
AfterStreamRaises == "stream_except"

\* lines 219-237: one turn of the loop over the stream, or the complete event
\* after its end; a send on a dropped transport raises into line 275
ChatStream ==
    /\ wpc = "stream"
    /\ IF si < Len(response.chunks)
       THEN LET content == response.chunks[si + 1] IN
            IF content = <<>>
            THEN /\ si' = si + 1
                 /\ UNCHANGED <<wpc, sent, full_response, msgs>>
            ELSE /\ full_response' = Accumulate(full_response, content)
                 /\ IF transport = "open"
                    THEN /\ sent' = Append(sent, ChunkEvent(Len(msgs), content))
                         /\ si' = si + 1
                         /\ UNCHANGED <<wpc, msgs>>
                    ELSE /\ wpc' = AfterStreamRaises
                         /\ msgs' = Failed(msgs, "send")
                         /\ UNCHANGED <<sent, si>>
       ELSE IF response.raises
       THEN /\ wpc' = AfterStreamRaises
            /\ msgs' = Failed(msgs, "stream")
            /\ UNCHANGED <<sent, si, full_response>>
       ELSE /\ IF transport = "open"
               THEN /\ sent' = Append(sent, CompleteEvent(Len(msgs), full_response,
                                                          search_results))
                    /\ wpc' = "receive"
                    /\ UNCHANGED msgs
               ELSE /\ wpc' = AfterStreamRaises
                    /\ msgs' = Failed(msgs, "send")
                    /\ UNCHANGED sent
            /\ UNCHANGED <<si, full_response>>
    /\ UNCHANGED <<hexc, conn, transport, user_message, search_results, response>>
    /\ UNCHANGED <<cfg, dbVars, pinecone, runVars, nreq, searchOut, builderVars, segVars, uploadVars, retryVars>>

\* lines 275-280: the error event of an interrupted stream; when this send
\* raises, the exception is caught at line 282
ChatStreamExcept ==
    /\ wpc = "stream_except"
    /\ IF transport = "open"
       THEN /\ sent' = Append(sent, ErrorEvent(Len(msgs), "Response streaming interrupted"))
            /\ wpc' = AfterErrorEvent
       ELSE /\ wpc' = "api_except"
            /\ UNCHANGED sent
    /\ UNCHANGED <<hexc, conn, transport, user_message, search_results, response, si,
                   full_response, msgs>>
    /\ UNCHANGED <<cfg, dbVars, pinecone, runVars, nreq, searchOut, builderVars, segVars, uploadVars, retryVars>>

\* lines 282-287: the error event of a failed call; when this send raises,
\* the exception leaves the loop (lines 289-294)
ChatApiExcept ==
    /\ wpc = "api_except"
    /\ IF transport = "open"
       THEN /\ sent' = Append(sent, ErrorEvent(Len(msgs), "AI service temporarily unavailable"))
            /\ wpc' = AfterErrorEvent
            /\ UNCHANGED hexc
       ELSE /\ \E e \in SendErrors : hexc' = e
            /\ wpc' = "raise"
            /\ UNCHANGED sent
    /\ UNCHANGED <<conn, transport, user_message, search_results, response, si,
                   full_response, msgs>>
    /\ UNCHANGED <<cfg, dbVars, pinecone, runVars, nreq, searchOut, builderVars, segVars, uploadVars, retryVars>>

\* routes/search_routes.py lines 77-81: WebSocketDisconnect is logged, any
\* other exception closes the connection
ClosesOn(e) == e = "other"

\* lines 289-294 and the route: the handler re-raises and the route ends the
\* connection
ChatRaise ==
    /\ wpc = "raise"
    /\ conn' = IF ClosesOn(hexc) THEN "server_closed" ELSE "ended"
    /\ wpc' = "gone"
    /\ UNCHANGED <<hexc, transport, sent, user_message, search_results, response, si,
                   full_response, msgs>>
    /\ UNCHANGED <<cfg, dbVars, pinecone, runVars, nreq, searchOut, builderVars, segVars, uploadVars, retryVars>>

(***************************************************************************)
(* SpecChat: one chat connection over a store with two videos.             *)
(***************************************************************************)
InitChat ==
    /\ cfg \in [token : {FALSE}, worker : {FALSE}, pinecone : BOOLEAN]
    /\ segs = RowsOf(<<RowToday, RowFine>>, <<RowOther>>)
    /\ video_status = [v \in VideoIds |-> IF segs[v] # <<>> THEN "ready" ELSE "absent"]
    /\ video_type = [v \in VideoIds |-> IF segs[v] # <<>> THEN "uploaded" ELSE "none"]
    /\ pinecone = [exists |-> TRUE, entries |-> IndexOf(segs)]
    /\ pc = [r \in Runs |-> "idle"]
    /\ rvid = [r \in Runs |-> 0]
    /\ processed = [r \in Runs |-> <<>>]
    /\ pending = [r \in Runs |-> <<>>]
    /\ wins = [r \in Runs |-> <<>>]
    /\ tried = [r \in Runs |-> <<>>]
    /\ fetched = [r \in Runs |-> FALSE]
    /\ idx = [r \in Runs |-> "none"]
    /\ exc = [r \in Runs |-> NoExc]
    /\ result = [r \in Runs |-> NoResult]
    /\ nreq = 0
    /\ searchOut = NoSearch
    /\ ChatIdle
    /\ BuilderIdle
    /\ SegmenterIdle
    /\ UploadIdle
    /\ RetryIdle

NextChat ==
    \/ ChatConnect
    \/ ClientDisconnect
    \/ ChatReceive
    \/ ChatSearch
    \/ ChatCreate
    \/ ChatStream
    \/ ChatStreamExcept
    \/ ChatApiExcept
    \/ ChatRaise

SpecChat == InitChat /\ [][NextChat]_vars

(***************************************************************************)
(* SpecWindows: create_overlapping_windows on a list of segments, then     *)
(* store_embeddings_in_pinecone on its windows, as process_video calls     *)
(* them (lines 146-153).                                                   *)
(***************************************************************************)
\* the video being processed
BuilderVideo == CHOOSE v \in VideoIds : \A w \in VideoIds : v <= w

\* instants in ticks: 0s, 4.5s, 12s, 26.5s and 31s at two ticks a second
TimePoints ==
    {0, 4 * TicksPerSec + 1, 12 * TicksPerSec, 26 * TicksPerSec + 1, 31 * TicksPerSec}

\* a spoken text and a blank one (Whisper segments are stored as returned,
\* lines 251-257)
SegmentTexts == {<<"h", "i">>, <<" ">>}

SegmentsOnGrid ==
    { Seg(x[1], x[2], x[3]) :
        x \in {y \in SegmentTexts \X TimePoints \X TimePoints : y[2] < y[3]} }

SegmentLists ==
    UNION { [1..n -> SegmentsOnGrid] : n \in 0..MaxSegments }

InitWindows ==
    /\ cfg \in [token : {FALSE}, worker : {FALSE}, pinecone : BOOLEAN]
    /\ segs = [v \in VideoIds |-> <<>>]
    /\ video_status = [v \in VideoIds |-> "absent"]
    /\ video_type = [v \in VideoIds |-> "none"]
    /\ pinecone = [exists |-> TRUE, entries |-> {}]
    /\ pc = [r \in Runs |-> "idle"]
    /\ rvid = [r \in Runs |-> 0]
    /\ processed = [r \in Runs |-> <<>>]
    /\ pending = [r \in Runs |-> <<>>]
    /\ wins = [r \in Runs |-> <<>>]
    /\ tried = [r \in Runs |-> <<>>]
    /\ fetched = [r \in Runs |-> FALSE]
    /\ idx = [r \in Runs |-> "none"]
    /\ exc = [r \in Runs |-> NoExc]
    /\ result = [r \in Runs |-> NoResult]
    /\ nreq = 0
    /\ searchOut = NoSearch
    /\ ChatIdle
    /\ given \in SegmentLists
    /\ built = <<>>
    /\ upserted = {}
    /\ bpc = "start"
    /\ window_args = DefaultArgs
    /\ SegmenterIdle
    /\ UploadIdle
    /\ RetryIdle

\* line 146: windows = create_overlapping_windows(processed_segments)
BuildGiven ==
    /\ bpc = "start"
    /\ built' = create_overlapping_windows(given, window_size, overlap)
    /\ bpc' = "built"
    /\ UNCHANGED <<given, upserted, window_args>>
    /\ UNCHANGED <<cfg, dbVars, pinecone, runVars, nreq, searchOut, chatVars, segVars,
                   uploadVars, retryVars>>

\* line 153: store_embeddings_in_pinecone(video_id, windows); upserted is
\* what index.upsert wrote
StoreBuilt ==
    /\ bpc = "built"
    /\ \E o \in IndexOutcomes(built, cfg) :
        /\ pinecone' = AfterStore(pinecone, BuilderVideo, built, o)
        /\ upserted' = IF o = "ok" THEN VectorsToUpsert(BuilderVideo, built) ELSE {}
        /\ bpc' = o
    /\ UNCHANGED <<given, built, window_args>>
    /\ UNCHANGED <<cfg, dbVars, runVars, nreq, searchOut, chatVars, segVars, uploadVars, retryVars>>

NextWindows == BuildGiven \/ StoreBuilt

SpecWindows == InitWindows /\ [][NextWindows]_vars

(***************************************************************************)
(* Properties of the processing pipeline, checked under Spec.              *)
(***************************************************************************)
Rank(s) == IF s = "third_party" THEN 1 ELSE IF s = "worker" THEN 2 ELSE 3

Configured(s) ==
    IF s = "third_party" THEN cfg.token ELSE IF s = "worker" THEN cfg.worker ELSE TRUE

Strategies == {"third_party", "worker", "direct"}

\* C1: the strategies are tried in the order third-party API, worker, direct
\* scraping: every strategy tried is configured, each one is tried only after
\* every configured strategy before it was tried and raised, nothing is tried
\* after a strategy that returned, and the segments of that strategy are the
\* ones fetch_youtube_transcript returns.
C1_ChainOrder ==
    \A r \in Runs :
        LET t == tried[r] IN
        /\ \A i \in 1..Len(t) :
            /\ Configured(t[i].strategy)
            /\ \A j \in 1..Len(t) : i < j => Rank(t[i].strategy) < Rank(t[j].strategy)
            /\ \A s \in Strategies :
                (Configured(s) /\ Rank(s) < Rank(t[i].strategy))
                    => \E j \in 1..(i - 1) : t[j].strategy = s /\ t[j].kind = "raised"
            /\ t[i].kind = "ok" => (i = Len(t) /\ processed[r] = t[i].segments)
        /\ pc[r] \in Strategies =>
            /\ Configured(pc[r])
            /\ \A i \in 1..Len(t) : Rank(t[i].strategy) < Rank(pc[r]) /\ t[i].kind = "raised"
            /\ \A s \in Strategies :
                (Configured(s) /\ Rank(s) < Rank(pc[r]))
                    => \E j \in 1..Len(t) : t[j].strategy = s

\* C1 witness: the third-party API raised, the worker returned two segments
\* and the run ended without the direct strategy having been tried.
C1_Witness ==
    \E r \in Runs :
        /\ pc[r] = "done"
        /\ Len(tried[r]) = 2
        /\ tried[r][1].strategy = "third_party" /\ tried[r][1].kind = "raised"
        /\ tried[r][2].strategy = "worker" /\ tried[r][2].kind = "ok"
        /\ Len(processed[r]) = 2

\* C2: a 429 of the third-party API ends the chain: no other strategy is tried
\* in that run and the run raises the HTTPException(429).
C2_RateLimitSurfaces ==
    \A r \in Runs :
        (\E i \in 1..Len(tried[r]) : tried[r][i].status = 429)
            => /\ Len(tried[r]) = 1
               /\ pc[r] \in {"except", "done"}
               /\ pc[r] = "done" => result[r] = Raised(HTTPException(429))

CreationEdge == {<<"absent", "uploaded">>}

OriginalEdges ==
    {<<"uploaded", "processing">>, <<"processing", "ready">>,
     <<"uploaded", "failed">>, <<"processing", "failed">>}

AmendedEdges ==
    OriginalEdges \cup {<<"ready", "processing">>, <<"failed", "processing">>}

StatusMoves(edges) ==
    \A v \in VideoIds :
        video_status'[v] # video_status[v]
            => <<video_status[v], video_status'[v]>> \in edges \cup CreationEdge

StatusTyped == \A v \in VideoIds : video_status[v] \in Statuses \cup {"absent"}

\* C3 as stated: the status of a stored video is one of the four and changes
\* only along uploaded->processing, processing->ready, uploaded->failed and
\* processing->failed.
C3_StatusEdgesOriginal == []StatusTyped /\ [][StatusMoves(OriginalEdges)]_vars

\* C3 amended: the status is one of the four and changes only along the four
\* edges above and ready->processing and failed->processing (a process request
\* on a video that is ready or failed starts a new run).
C3_StatusEdgesAmended == []StatusTyped /\ [][StatusMoves(AmendedEdges)]_vars

\* C3 witness: a run is under way on a video that already has committed
\* segments, i.e. a video that was ready is processing again.
C3_Witness ==
    \E r \in Runs :
        /\ pc[r] \in {"windows", "index", "ready"}
        /\ video_status[rvid[r]] = "processing"
        /\ segs[rvid[r]] # <<>>
        /\ video_type[rvid[r]] = "youtube"

\* C4: when every strategy tried has raised, the run returns no segments, the
\* video is committed as failed and the run raises.
C4_AllFailMarksFailed ==
    \A r \in Runs :
        (/\ pc[r] = "done"
         /\ fetched[r]
         /\ \A i \in 1..Len(tried[r]) : tried[r][i].kind = "raised")
            => /\ result[r].kind = "raised"
               /\ video_status[rvid[r]] = "failed"
               /\ processed[r] = <<>>
               /\ segs[rvid[r]] = <<>>

\* C4 witness: all three strategies were configured, tried and raised, and the
\* run is over.
C4_Witness ==
    \E r \in Runs :
        /\ pc[r] = "done"
        /\ Len(tried[r]) = 3
        /\ \A i \in 1..3 : tried[r][i].kind = "raised"

IndexingFailed(o) == o \in {"unconfigured", "setup_raises", "embed_raises", "upsert_raises"}

\* C5: a run whose indexing was skipped (index unconfigured) or failed ends
\* with the video ready and returns success with the segment and window counts.
C5_IndexFailureNotFatal ==
    \A r \in Runs :
        /\ (pc[r] = "done" /\ IndexingFailed(idx[r]))
            => /\ video_status[rvid[r]] = "ready"
               /\ result[r] = ProcessingResult(Len(processed[r]), Len(wins[r]))
        /\ (pc[r] = "except" /\ IndexingFailed(idx[r])) => FALSE

\* C5 witness: an embedding call raised during indexing of a run with windows
\* and the run is over.
C5_Witness ==
    \E r \in Runs :
        /\ pc[r] = "done"
        /\ idx[r] = "embed_raises"
        /\ Len(wins[r]) > 0

IsPermutation(a, b) ==
    /\ Len(a) = Len(b)
    /\ \E p \in Perms(Len(a)) : \A i \in 1..Len(a) : a[i] = b[p[i]]

SortedByStart(rows) ==
    \A i, j \in 1..Len(rows) : i < j => rows[i].start <= rows[j].start

\* the segments of run r are all with the persistence layer: added to the
\* session by this run, or the committed rows the run read
HandedToPersistence(r) ==
    IF fetched[r] \/ video_type[rvid[r]] = "uploaded"
    THEN pending[r] = processed[r]
    ELSE IsPermutation(processed[r], segs[rvid[r]])

\* C6: once the windows are built (and when the video is set to ready) every
\* segment of the run has been handed to persistence, the windows are those of
\* the complete segment list, and the status becomes ready only after the
\* indexing step was entered.
C6_ReadyAfterPersistWindowsIndex ==
    \A r \in Runs :
        /\ pc[r] \in {"index", "ready"}
            => /\ HandedToPersistence(r)
               /\ wins[r] = create_overlapping_windows(processed[r], window_size, overlap)
        /\ pc[r] = "ready" => idx[r] # "none"
        /\ (pc[r] = "done" /\ result[r].kind = "ok")
            => /\ idx[r] # "none"
               /\ video_status[rvid[r]] = "ready"
               /\ wins[r] = create_overlapping_windows(processed[r], window_size, overlap)
               /\ \A i \in 1..Len(processed[r]) :
                    \E j \in 1..Len(segs[rvid[r]]) : segs[rvid[r]][j] = processed[r][i]
        /\ pc[r] \notin {"idle", "begin", "done"} => video_status[rvid[r]] # "ready"

\* C6 witness: a run that fetched two segments is about to set the video ready.
C6_Witness ==
    \E r \in Runs :
        /\ pc[r] = "ready"
        /\ fetched[r]
        /\ Len(processed[r]) = 2
        /\ Len(wins[r]) > 0

C8_SegmentsImmutable ==
    [][\A v \in VideoIds : segs[v] # <<>> => segs'[v] = segs[v]]_vars

(***************************************************************************)
(* Properties of the search, checked under SpecSearch.                     *)
(***************************************************************************)
Searched == searchOut.kind = "searched"

SemanticUnavailable(sem) ==
    sem \in {"unconfigured", "no_index", "setup_raises", "embed_raises", "query_raises"}

HasLongWord(query) == \E i \in 1..Len(Split(query)) : Len(Split(query)[i]) > MinWordLen

TextResults(rows) == [i \in 1..Len(rows) |-> TextResult(rows[i])]

\* C9: unified_video_search returns a list whatever fails, the empty list when
\* neither the semantic stage nor the database answered, and POST /search
\* answers 200 with that list.
C9_SearchNeverRaises ==
    Searched =>
        /\ searchOut.out.kind = "returned"
        /\ (searchOut.sem # "ok" /\ searchOut.dbq = "exact_raises") => searchOut.out.items = <<>>
        /\ searchOut.via = "endpoint"
            => searchOut.response = [status |-> 200, body |-> searchOut.out.items]

\* C9 witness: POST /search met a failing embedding call and a failing
\* database.
C9_Witness ==
    /\ Searched
    /\ searchOut.via = "endpoint"
    /\ searchOut.sem = "embed_raises"
    /\ searchOut.dbq = "exact_raises"

\* C10 as stated: with the semantic stage unavailable and the database
\* answering, the result is the result of the exact-substring stage.
C10_FallThroughExactOriginal ==
    (Searched /\ SemanticUnavailable(searchOut.sem) /\ searchOut.dbq = "ok")
        => /\ searchOut.out.kind = "returned"
           /\ searchOut.out.items =
                TextResults(ExactMatches(searchOut.ordered, searchOut.query, searchOut.top_k))

\* C10 amended: with the semantic stage unavailable the search goes on with
\* the exact-substring stage and returns its matches when there are any or the
\* query is a single token, the word stage's matches otherwise, and the empty
\* list when the database raises; the semantic error is never what the caller
\* gets.
C10_FallThroughAmended ==
    (Searched /\ SemanticUnavailable(searchOut.sem))
        => LET exact == ExactMatches(searchOut.ordered, searchOut.query, searchOut.top_k)
               words == WordMatches(searchOut.ordered, Split(searchOut.query), 1,
                                    searchOut.top_k, <<>>)
               multi == Len(Split(searchOut.query)) > 1
               dbRaised ==
                    \/ searchOut.dbq = "exact_raises"
                    \/ /\ searchOut.dbq = "word_raises"
                       /\ exact = <<>> /\ multi /\ HasLongWord(searchOut.query)
           IN  /\ searchOut.out.kind = "returned"
               /\ \E i \in 1..Len(searchOut.out.stages) : searchOut.out.stages[i] = "exact"
               /\ searchOut.out.items =
                    IF dbRaised THEN <<>>
                    ELSE IF exact # <<>> \/ ~multi THEN TextResults(exact)
                    ELSE TextResults(words)

\* C10 witness: the index query raised, "fine today" has no exact match, and
\* the two rows found by its words are returned.
C10_Witness ==
    /\ Searched
    /\ searchOut.sem = "query_raises"
    /\ searchOut.dbq = "ok"
    /\ searchOut.query = <<"f", "i", "n", "e", " ", "t", "o", "d", "a", "y">>
    /\ Len(searchOut.out.items) = 2
    /\ searchOut.out.stages = <<"semantic", "exact", "words">>

\* text contains word as a substring, letter case ignored
Contains(text, word) ==
    \E k \in 1..(Len(text) - Len(word) + 1) :
        \A i \in 1..Len(word) : Lower(text[k + i - 1]) = Lower(word[i])

\* the first n rows, in start order, whose text contains word
SubstringMatches(ordered, word, n) ==
    Limit(SelectSeq(ordered, LAMBDA row : Contains(row.text, word)), n)

LongTokens(query) == SelectSeq(Split(query), LAMBDA w : Len(w) > 3)

\* the matches of the first k long tokens, up to 3 for each, appended in
\* query order
RECURSIVE TokenMatchesUpTo(_, _, _)
TokenMatchesUpTo(ordered, long, k) ==
    IF k = 0 THEN <<>>
    ELSE TokenMatchesUpTo(ordered, long, k - 1) \o SubstringMatches(ordered, long[k], 3)

\* the first long token at which the accumulated count reaches top_k, the
\* last long token when none does
StopToken(ordered, long, top_k) ==
    LET reached == {k \in 1..Len(long) : Len(TokenMatchesUpTo(ordered, long, k)) >= top_k}
    IN  IF reached = {} THEN Len(long)
        ELSE CHOOSE k \in reached : \A j \in reached : k <= j

DatabaseAnswered ==
    /\ Searched
    /\ searchOut.dbq = "ok"
    /\ \E i \in 1..Len(searchOut.out.stages) : searchOut.out.stages[i] = "exact"

InWordStage == \E i \in 1..Len(searchOut.out.stages) : searchOut.out.stages[i] = "words"

\* C11: when the database stages answer, the token-fallback stage is entered
\* exactly when no row contains the query (case ignored) and the query has
\* more than one token; its result is then the rows containing each token
\* longer than 3 characters, up to 3 per token in start order, appended in
\* query order up to and including the first token at which the count reaches
\* top_k; otherwise the result is the exact stage's.
C11_TokenFallback ==
    DatabaseAnswered =>
        LET q == searchOut.query
            exact == SubstringMatches(searchOut.ordered, q, searchOut.top_k)
            long == LongTokens(q)
            enters == exact = <<>> /\ Len(Split(q)) > 1
        IN  /\ InWordStage <=> enters
            /\ searchOut.out.items =
                 IF enters
                 THEN TextResults(TokenMatchesUpTo(searchOut.ordered, long,
                                    StopToken(searchOut.ordered, long, searchOut.top_k)))
                 ELSE TextResults(exact)

\* C12: a search returns at most top_k matches, whichever stage produced them.
C12_AtMostTopK ==
    (Searched /\ searchOut.out.kind = "returned")
        => Len(searchOut.out.items) <= searchOut.top_k

\* C13: the matches returned by the exact-substring stage and by the
\* token-fallback stage are in non-decreasing start-time order.
C13_SubstringStagesChronological ==
    DatabaseAnswered =>
        \A i, j \in 1..Len(searchOut.out.items) :
            i < j => searchOut.out.items[i].start_time <= searchOut.out.items[j].start_time

\* C14 as stated: a match of a substring stage carries confidence 0.8 in the
\* response of POST /search and 0.7 when unified_video_search is called as a
\* function.
C14_ConfidenceByPathOriginal ==
    DatabaseAnswered =>
        /\ searchOut.via = "endpoint" =>
            \A i \in 1..Len(searchOut.response.body) : searchOut.response.body[i].confidence = 80
        /\ searchOut.via = "function" =>
            \A i \in 1..Len(searchOut.out.items) : searchOut.out.items[i].confidence = 70

\* C14 amended: a match of a substring stage carries the flat confidence 0.7
\* both in the response of POST /search and when unified_video_search is
\* called as a function.
C14_ConfidenceFlat ==
    DatabaseAnswered =>
        /\ \A i \in 1..Len(searchOut.out.items) : searchOut.out.items[i].confidence = 70
        /\ searchOut.via = "endpoint" =>
            /\ Len(searchOut.response.body) = Len(searchOut.out.items)
            /\ \A i \in 1..Len(searchOut.response.body) :
                    searchOut.response.body[i].confidence = 70

\* C14 witness: POST /search answered with two matches found by the
\* token-fallback stage.
C14_Witness ==
    /\ DatabaseAnswered
    /\ searchOut.via = "endpoint"
    /\ InWordStage
    /\ Len(searchOut.response.body) = 2

(***************************************************************************)
(* Properties of the chat connection, checked under SpecChat.              *)
(***************************************************************************)
EventsOf(m) == SelectSeq(sent, LAMBDA e : e.msg = m)

IsTerminal(e) == e.type \in {"complete", "error"}

EndsWithTerminal(ev) == ev # <<>> /\ IsTerminal(ev[Len(ev)])

\* the contents of the events, all chunk events, one after the other
RECURSIVE ChunkText(_)
ChunkText(ev) == IF ev = <<>> THEN <<>> ELSE ev[1].content \o ChunkText(Tail(ev))

\* the handler is through with message m and is still running
Finished(m) == m < Len(msgs) \/ (m = Len(msgs) /\ wpc = "receive")

\* C15: the events sent for a non-blank message are chunk events followed by
\* at most one terminal event, which is the last event of the message; once
\* the handler is through with the message there is exactly one; and the
\* full_response of a complete event is the contents of the message's chunk
\* events in the order sent.
C15_ChunksThenOneTerminal ==
    \A m \in 1..Len(msgs) :
        msgs[m].handled = "message" =>
            LET ev == EventsOf(m) IN
            /\ \A i \in 1..Len(ev) : IsTerminal(ev[i]) => i = Len(ev)
            /\ Finished(m) => EndsWithTerminal(ev)
            /\ \A i \in 1..Len(ev) :
                ev[i].type = "complete"
                    => ev[i].full_response = ChunkText(SubSeq(ev, 1, i - 1))

\* C15 witness: a message was answered with the chunks "a" and "b" and a
\* complete event, and the handler is receiving again.
C15_Witness ==
    /\ wpc = "receive"
    /\ Len(sent) = 3
    /\ sent[1].type = "chunk" /\ sent[2].type = "chunk"
    /\ sent[3].type = "complete" /\ sent[3].full_response = <<"a", "b">>

\* C16: an error while a message is handled (payload, search, language-model
\* call, stream) ends the message with an error event while the transport is
\* up, and the server closes the connection only when the transport has
\* dropped.
C16_ErrorsAreEventsNotCloses ==
    /\ conn = "server_closed" => transport = "dropped"
    /\ \A m \in 1..Len(msgs) :
        (/\ msgs[m].failure \in {"payload", "search", "create", "stream"}
         /\ transport = "open"
         /\ Finished(m) \/ wpc = "gone")
            => /\ EventsOf(m) # <<>>
               /\ EventsOf(m)[Len(EventsOf(m))].type = "error"

\* C17: the events of different messages do not interleave, and when a
\* message has been received every non-blank message before it has its
\* terminal event.
C17_OneMessageAtATime ==
    /\ \A i, j \in 1..Len(sent) : i < j => sent[i].msg <= sent[j].msg
    /\ \A m \in 1..(Len(msgs) - 1) :
        msgs[m].handled = "message" => EndsWithTerminal(EventsOf(m))
    /\ \A i \in 1..Len(sent) : sent[i].msg <= Len(msgs)

\* C17 witness: two non-blank messages, the second one being streamed after
\* the terminal event of the first.
C17_Witness ==
    /\ Len(msgs) = 2
    /\ msgs[1].handled = "message" /\ msgs[2].handled = "message"
    /\ EndsWithTerminal(EventsOf(1))
    /\ wpc = "stream"
    /\ EventsOf(2) # <<>>

\* C18: after the language-model call or its stream failed for a message,
\* the error event is the last event of that message, the handler neither
\* raises nor ends while the transport is up, and a message received next is
\* handled.
C18_SessionSurvivesModelFailure ==
    \A m \in 1..Len(msgs) :
        msgs[m].failure \in {"create", "stream"} =>
            LET ev == EventsOf(m) IN
            /\ \A i \in 1..Len(ev) : ev[i].type = "error" => i = Len(ev)
            /\ \A i \in 1..Len(ev) : ev[i].type # "complete"
            /\ (m = Len(msgs) /\ transport = "open")
                => wpc \in {"stream_except", "api_except", "receive"}
            /\ Finished(m) => (ev # <<>> /\ ev[Len(ev)].type = "error")
            /\ (m + 1 = Len(msgs) /\ msgs[m + 1].handled = "message" /\ transport = "open")
                => wpc \in {"search", "create", "stream", "stream_except", "api_except",
                            "receive"}

\* C18 witness: the stream of the first message broke after a chunk, and the
\* second message was answered with a complete event.
C18_Witness ==
    /\ Len(msgs) = 2
    /\ msgs[1].failure = "stream"
    /\ Len(EventsOf(1)) = 2
    /\ EventsOf(1)[1].type = "chunk" /\ EventsOf(1)[2].type = "error"
    /\ EventsOf(2) # <<>>
    /\ EventsOf(2)[Len(EventsOf(2))].type = "complete"

(***************************************************************************)
(* Properties of the window builder, checked under SpecWindows.            *)
(***************************************************************************)
Built == bpc # "start"

MinStart(list) == CHOOSE s \in {list[i].start : i \in 1..Len(list)} :
                    \A i \in 1..Len(list) : s <= list[i].start

\* instant t (and the tick that begins at it) lies in some window
Covered(t) == \E i \in 1..Len(built) : built[i].start_time <= t /\ t < built[i].end_time

WidthAndEndBounded ==
    \A i \in 1..Len(built) :
        /\ built[i].end_time - built[i].start_time <= 10 * TicksPerSec
        /\ built[i].end_time <= SeqMaxEnd(given)

\* C19 as stated: the windows of a non-empty list cover every instant from
\* the least start to the greatest end, consecutive windows start 5s apart,
\* each is at most 10s wide and none ends after the greatest end.
C19_WindowCoverageOriginal ==
    (Built /\ given # <<>>) =>
        /\ \A t \in MinStart(given)..(SeqMaxEnd(given) - 1) : Covered(t)
        /\ \A i \in 1..(Len(built) - 1) :
                built[i + 1].start_time - built[i].start_time = 5 * TicksPerSec
        /\ WidthAndEndBounded

\* C19 amended: the windows of a non-empty list cover every instant of every
\* segment whose text is not blank, every window starts at a multiple of 5s
\* (positions whose window would have no text are left out), each is at most
\* 10s wide and none ends after the greatest end.
C19_WindowCoverageAmended ==
    (Built /\ given # <<>>) =>
        /\ \A k \in 1..Len(given) :
                Strip(given[k].text) # <<>>
                    => \A t \in given[k].start..(given[k].end - 1) : Covered(t)
        /\ \A i \in 1..Len(built) : built[i].start_time % (5 * TicksPerSec) = 0
        /\ WidthAndEndBounded

\* C19 witness: a segment of more than 10s and a silence after it: windows
\* were built, two consecutive ones start more than 5s apart.
C19_Witness ==
    /\ Built
    /\ \E k \in 1..Len(given) :
        given[k].end - given[k].start > 10 * TicksPerSec /\ Strip(given[k].text) # <<>>
    /\ \E i \in 1..(Len(built) - 1) :
        built[i + 1].start_time - built[i].start_time > 5 * TicksPerSec

\* C20: the windows are in strictly increasing start order and none has a
\* blank text; a successful index write of the run holds exactly one vector
\* per window, the vector of the i-th window (from 0) under the id
\* (video, i); and an empty segment list gives no window and writes nothing.
C20_PositionalIds ==
    /\ Built =>
        /\ \A i, j \in 1..Len(built) : i < j => built[i].start_time < built[j].start_time
        /\ \A i \in 1..Len(built) : Strip(built[i].text) # <<>>
        /\ given = <<>> => built = <<>>
    /\ bpc = "ok" =>
        /\ {e.id : e \in upserted} = {<<BuilderVideo, i>> : i \in 0..(Len(built) - 1)}
        /\ Cardinality(upserted) = Len(built)
        /\ \A i \in 1..Len(built) :
            \E e \in upserted :
                /\ e.id = <<BuilderVideo, i - 1>>
                /\ e.text = built[i].text
                /\ e.start_time = built[i].start_time
                /\ e.end_time = built[i].end_time
    /\ (bpc \notin {"start", "built"} /\ given = <<>>)
        => (upserted = {} /\ pinecone.entries = {})

\* C20 witness: three or more windows were written to the index, from a list
\* that also holds a blank segment.
C20_Witness ==
    /\ bpc = "ok"
    /\ Len(built) >= 3
    /\ Cardinality(upserted) = Len(built)
    /\ \E k \in 1..Len(given) : Strip(given[k].text) = <<>>

(***************************************************************************)
(* The adaptive segmenter (youtube_service.py): split_large_segments,      *)
(* group_small_segments and smart_segment_youtube_transcript, between the  *)
(* transcript sources and the store.                                       *)
(***************************************************************************)
target_duration == 8
MinWordsPerSegment == 20
FlushLength == 200
MaxChunkLength == 400

\* the thresholds in seconds, as ticks
KeepDuration == 15 * TicksPerSec
MinGroupDuration == 5 * TicksPerSec
HardCap == 15 * TicksPerSec
SplitAverage == 30 * TicksPerSec
GroupAverage == 5 * TicksPerSec

IsSentenceEnd(c) == c \in {".", "!", "?"}

\* the positions at which re.split(r'(?<=[.!?])\s+', text) cuts: a whitespace
\* character that follows ".", "!" or "?"
SentenceCuts(t) == {i \in 2..Len(t) : IsSpace(t[i]) /\ IsSentenceEnd(t[i - 1])}

\* the last position of the run of whitespace that starts at position i
RunEnd(t, i) ==
    CHOOSE j \in i..Len(t) :
        (\A k \in i..j : IsSpace(t[k])) /\ (j = Len(t) \/ ~IsSpace(t[j + 1]))

\* line 101: re.split(r'(?<=[.!?])\s+', text)
Sentences(t) ==
    LET cuts == SentenceCuts(t)
        n == Cardinality(cuts)
        cut(k) == CHOOSE c \in cuts : Cardinality({x \in cuts : x < c}) = k - 1
    IN  [k \in 1..(n + 1) |->
            SubSeq(t, IF k = 1 THEN 1 ELSE RunEnd(t, cut(k - 1)) + 1,
                      IF k = n + 1 THEN Len(t) ELSE cut(k) - 1)]

\* line 106: len(words) * target_duration // duration, duration in seconds
WordQuotient(words, duration) ==
    (Len(words) * target_duration * TicksPerSec) \div duration

\* line 106: max(20, quotient).  The times are floats (float(...) at lines
\* 337-338 and 497-498), so the quotient is a float; max returns the int 20
\* unless the quotient is larger, and then it returns the float
WordsPerSegment(words, duration) ==
    [value |-> Max(MinWordsPerSegment, WordQuotient(words, duration)),
     float |-> WordQuotient(words, duration) > MinWordsPerSegment]

\* lines 107-108: ' '.join(words[i:i+n]) for i in range(0, len(words), n)
RECURSIVE WordChunks(_, _)
WordChunks(words, n) ==
    IF words = <<>> THEN <<>>
    ELSE <<JoinSpace(SubSeq(words, 1, Min(n, Len(words))))>>
            \o WordChunks(SubSeq(words, Min(n, Len(words)) + 1, Len(words)), n)

\* a chunk of a split segment; its times are counted in 1/den of a tick
\* (time_per_char is duration / len(text))
Chunk(text, s, e, den) == [text |-> text, start |-> s, end |-> e, den |-> den]

\* the unit in which the times of a segment are counted
Den(segment) == IF "den" \in DOMAIN segment THEN segment.den ELSE 1

\* variant: a second for every character
TimePerCharOneSecond(text, duration) == [num |-> TicksPerSec, den |-> 1]

\* line 113: time_per_char as a fraction
TimePerChar(text, duration) ==
    IF text # <<>> THEN [num |-> duration, den |-> Len(text)]
    ELSE [num |-> TicksPerSec, den |-> 1]

\* lines 115-140: the loop over the sentences from sentence i on, and the
\* remaining text after it; current_start is counted in 1/tpc.den of a tick
RECURSIVE Reassemble(_, _, _, _, _, _)
Reassemble(sentences, i, current_text, current_start, tpc, segment) ==
    IF i > Len(sentences)
    THEN IF current_text # <<>>
         THEN <<Chunk(Strip(current_text), current_start, segment.end * tpc.den, tpc.den)>>
         ELSE <<>>
    ELSE LET sentence == sentences[i] IN
         IF Strip(sentence) = <<>>
         THEN Reassemble(sentences, i + 1, current_text, current_start, tpc, segment)
         ELSE IF /\ current_text # <<>>
                 /\ \/ Len(current_text) > FlushLength
                    \/ Len(current_text) + 1 + Len(sentence) > MaxChunkLength
              THEN <<Chunk(Strip(current_text), current_start,
                           current_start + Len(current_text) * tpc.num, tpc.den)>>
                     \o Reassemble(sentences, i + 1, sentence,
                                   current_start + Len(current_text) * tpc.num, tpc, segment)
              ELSE Reassemble(sentences, i + 1, Strip(current_text \o <<" ">> \o sentence),
                              current_start, tpc, segment)

\* lines 92-140: one segment of the loop of split_large_segments; range()
\* raises TypeError when words_per_segment is a float
SplitSegment(segment) ==
    LET text == segment.text
        duration == segment.end - segment.start
        sentences == Sentences(text)
        words == Split(text)
        per == WordsPerSegment(words, duration)
        tpc == TimePerChar(text, duration)
    IN  IF duration <= KeepDuration THEN Ok(<<segment>>)
        ELSE IF Len(sentences) <= 1 /\ per.float THEN Raises(OtherException)
        ELSE Ok(Reassemble(IF Len(sentences) <= 1 THEN WordChunks(words, per.value)
                                                  ELSE sentences,
                           1, <<>>, segment.start * tpc.den, tpc, segment))

RECURSIVE split_large_segments(_)
split_large_segments(segments) ==
    IF segments = <<>> THEN Ok(<<>>)
    ELSE LET first == SplitSegment(segments[1])
             rest == split_large_segments(Tail(segments))
         IN  IF first.kind = "raised" THEN first
             ELSE IF rest.kind = "raised" THEN rest
             ELSE Ok(first.segments \o rest.segments)

\* text.endswith(('.', '!', '?'))
EndsSentence(text) == text # <<>> /\ IsSentenceEnd(text[Len(text)])

\* variant: the forced cutoff comes as soon as the group is long enough to end
ForcedCutoffAtMinimum(current_duration) == current_duration >= 5 * TicksPerSec

\* line 176: current_duration >= 10
ForcedCutoff(current_duration) == current_duration >= 10 * TicksPerSec

\* variant: any distance to the next span counts as a pause
NaturalPauseAlways(gap) == TRUE

\* line 182: gap > 0.5
NaturalPause(gap) == 2 * gap > TicksPerSec

\* lines 168-190: should_finalize for segments[i], the span just appended
ShouldFinalize(segments, i, text, current_duration) ==
    \/ /\ current_duration >= MinGroupDuration
       /\ IF EndsSentence(text) THEN TRUE
          ELSE IF ForcedCutoff(current_duration) THEN TRUE
          ELSE IF i < Len(segments)
               THEN NaturalPause(segments[i + 1].start - segments[i].end)
               ELSE FALSE
    \/ current_duration >= HardCap
    \/ i = Len(segments)

\* lines 154-203: one pass of the loop of group_small_segments, on
\* segments[i]: the group as the pass leaves it and the segments it emits
GroupIteration(segments, i, group) ==
    LET segment == segments[i]
        text == Strip(segment.text)
        grown == [text_parts |-> Append(group.text_parts, text),
                  start |-> IF group.start = <<>> THEN <<segment.start>> ELSE group.start,
                  end |-> <<segment.end>>]
    IN  IF text = <<>> THEN [group |-> group, emitted |-> <<>>]
        ELSE IF /\ ShouldFinalize(segments, i, text, grown.end[1] - grown.start[1])
                /\ grown.text_parts # <<>>
             THEN [group |-> NoGroup,
                   emitted |-> <<Seg(JoinSpace(grown.text_parts), grown.start[1], grown.end[1])>>]
             ELSE [group |-> grown, emitted |-> <<>>]

RECURSIVE SumDurations(_)
SumDurations(segments) ==
    IF segments = <<>> THEN 0
    ELSE segments[1].end - segments[1].start + SumDurations(Tail(segments))

\* variant: the strategy goes by the average alone
StrategyForByAverageOnly(raw) ==
    IF SumDurations(raw) > SplitAverage * Len(raw) THEN "split"
    ELSE IF SumDurations(raw) < GroupAverage * Len(raw) THEN "group"
    ELSE "pass"

\* lines 223-241: the strategy, from the count and the average duration
StrategyFor(raw) ==
    IF Len(raw) = 1 \/ SumDurations(raw) > SplitAverage * Len(raw) THEN "split"
    ELSE IF SumDurations(raw) < GroupAverage * Len(raw) THEN "group"
    ELSE "pass"

\* html.unescape on the character references the model's texts use: "&#39;"
Apostrophe == <<"&", "#", "3", "9", ";">>

RECURSIVE UnescapeFrom(_)
UnescapeFrom(t) ==
    IF t = <<>> THEN <<>>
    ELSE IF Len(t) >= Len(Apostrophe) /\ SubSeq(t, 1, Len(Apostrophe)) = Apostrophe
         THEN <<"'">> \o UnescapeFrom(SubSeq(t, Len(Apostrophe) + 1, Len(t)))
    ELSE <<t[1]>> \o UnescapeFrom(Tail(t))

Unescape(t) == IF \A i \in 1..Len(t) : t[i] # "&" THEN t ELSE UnescapeFrom(t)

\* an entry of a caption track: text, start offset and duration
Entry(text, s, d) == [text |-> text, start |-> s, dur |-> d]

\* fetch_youtube_transcript_via_third_party, lines 334-345: every entry, its
\* text decoded, end = start + dur
ThirdPartySegments(entries) ==
    [i \in 1..Len(entries) |->
        Seg(Unescape(entries[i].text), entries[i].start, entries[i].start + entries[i].dur)]

\* fetch_youtube_transcript_smart, lines 495-506: the entries whose text is
\* not blank, the text stripped
DirectSegments(entries) ==
    LET kept == SelectSeq(entries, LAMBDA e : Strip(e.text) # <<>>)
    IN  [i \in 1..Len(kept) |->
            Seg(Strip(kept[i].text), kept[i].start, kept[i].start + kept[i].dur)]

\* the worker's "segments" and the speech-to-text engine's segments carry
\* text, start and end themselves
GivenSegments(entries) ==
    [i \in 1..Len(entries) |->
        Seg(entries[i].text, entries[i].start, entries[i].start + entries[i].dur)]

Sources == {"third_party", "worker", "direct", "whisper"}

\* lines 325-348 of the third-party strategy: an empty transcript raises,
\* otherwise the segments go to smart_segment_youtube_transcript
FetchThirdParty ==
    /\ spc = "fetch"
    /\ source = "third_party"
    /\ IF transcript = <<>>
       THEN spc' = "raised" /\ UNCHANGED raw_segments
       ELSE spc' = "segment" /\ raw_segments' = ThirdPartySegments(transcript)
    /\ UNCHANGED <<source, transcript, strategy, gi, current_group, smart_segments, stored>>
    /\ UNCHANGED <<cfg, dbVars, pinecone, runVars, nreq, searchOut, chatVars, builderVars,
                   uploadVars, retryVars>>

\* lines 495-509 of the direct strategy
FetchDirect ==
    /\ spc = "fetch"
    /\ source = "direct"
    /\ spc' = "segment"
    /\ raw_segments' = DirectSegments(transcript)
    /\ UNCHANGED <<source, transcript, strategy, gi, current_group, smart_segments, stored>>
    /\ UNCHANGED <<cfg, dbVars, pinecone, runVars, nreq, searchOut, chatVars, builderVars,
                   uploadVars, retryVars>>

\* fetch_youtube_transcript_via_worker, lines 389-397: the segments of the
\* response are returned as they are
FetchWorker ==
    /\ spc = "fetch"
    /\ source = "worker"
    /\ spc' = "persist"
    /\ smart_segments' = GivenSegments(transcript)
    /\ UNCHANGED <<source, transcript, raw_segments, strategy, gi, current_group, stored>>
    /\ UNCHANGED <<cfg, dbVars, pinecone, runVars, nreq, searchOut, chatVars, builderVars,
                   uploadVars, retryVars>>

\* process_uploaded_video, lines 251-257: the engine's segments as they are
FetchWhisper ==
    /\ spc = "fetch"
    /\ source = "whisper"
    /\ spc' = "persist"
    /\ smart_segments' = GivenSegments(transcript)
    /\ UNCHANGED <<source, transcript, raw_segments, strategy, gi, current_group, stored>>
    /\ UNCHANGED <<cfg, dbVars, pinecone, runVars, nreq, searchOut, chatVars, builderVars,
                   uploadVars, retryVars>>

\* smart_segment_youtube_transcript, lines 219-241: nothing for no segments;
\* splitting and passing through return at once, grouping enters its loop
SmartSegment ==
    /\ spc = "segment"
    /\ IF raw_segments = <<>>
       THEN /\ spc' = "persist"
            /\ UNCHANGED <<strategy, gi, smart_segments>>
       ELSE /\ strategy' = StrategyFor(raw_segments)
            /\ IF strategy' = "split"
               THEN LET split == split_large_segments(raw_segments) IN
                    IF split.kind = "raised"
                    THEN spc' = "raised" /\ UNCHANGED <<gi, smart_segments>>
                    ELSE /\ spc' = "persist"
                         /\ smart_segments' = split.segments
                         /\ UNCHANGED gi
               ELSE IF strategy' = "group"
               THEN /\ spc' = "group"
                    /\ gi' = 1
                    /\ UNCHANGED smart_segments
               ELSE /\ spc' = "persist"
                    /\ smart_segments' = raw_segments
                    /\ UNCHANGED gi
    /\ UNCHANGED <<source, transcript, raw_segments, current_group, stored>>
    /\ UNCHANGED <<cfg, dbVars, pinecone, runVars, nreq, searchOut, chatVars, builderVars,
                   uploadVars, retryVars>>

\* one pass of the loop of group_small_segments; after the last span the
\* result is returned
GroupStep ==
    /\ spc = "group"
    /\ LET pass == GroupIteration(raw_segments, gi, current_group) IN
        /\ current_group' = pass.group
        /\ smart_segments' = smart_segments \o pass.emitted
    /\ gi' = gi + 1
    /\ spc' = IF gi = Len(raw_segments) THEN "persist" ELSE "group"
    /\ UNCHANGED <<source, transcript, raw_segments, strategy, stored>>
    /\ UNCHANGED <<cfg, dbVars, pinecone, runVars, nreq, searchOut, chatVars, builderVars,
                   uploadVars, retryVars>>

\* process_video, lines 127-134, and process_uploaded_video, lines 262-269:
\* every segment is added to the store
StoreSegments ==
    /\ spc = "persist"
    /\ stored' = AddAll(stored, smart_segments)
    /\ spc' = "done"
    /\ UNCHANGED <<source, transcript, raw_segments, strategy, gi, current_group,
                   smart_segments>>
    /\ UNCHANGED <<cfg, dbVars, pinecone, runVars, nreq, searchOut, chatVars, builderVars,
                   uploadVars, retryVars>>

(***************************************************************************)
(* SpecSegment: one transcript from its source to the store.               *)
(***************************************************************************)
\* n spans of one second each, one after the other, the text a plain word;
\* the spans at the positions in hush have blank text
RunOf(n, hush) ==
    [i \in 1..n |->
        Entry(IF i \in hush THEN <<" ">> ELSE <<"w">>, (i - 1) * TicksPerSec, TicksPerSec)]

Runs1s ==
    {RunOf(n, {}) : n \in 1..(11 * MaxSegments)}
        \cup {RunOf(17, 10..16), RunOf(12, {12}), RunOf(12, {1})}

\* short lists: every span a text, a duration and a distance in ticks from
\* the end of the span before
SpanTexts == {<<"a">>, <<"b", ".">>, <<" ">>}
SpanDurations == {TicksPerSec, 6 * TicksPerSec}
SpanGaps == {0, 1, 2}
SpanChoices == SpanTexts \X SpanDurations \X SpanGaps

RECURSIVE Place(_, _)
Place(choices, t) ==
    IF choices = <<>> THEN <<>>
    ELSE <<Entry(choices[1][1], t + choices[1][3], choices[1][2])>>
            \o Place(Tail(choices), t + choices[1][3] + choices[1][2])

ShortLists == {Place(c, 0) : c \in UNION {[1..n -> SpanChoices] : n \in 0..MaxSegments}}

\* n words of l letters each, single spaces between them
WordsOf(n, l) == [i \in 1..(n * (l + 1) - 1) |-> IF i % (l + 1) = 0 THEN " " ELSE "w"]

\* n sentences of l letters and a full stop each, single spaces between them
SentencesOf(n, l) ==
    [i \in 1..(n * (l + 2) - 1) |->
        IF i % (l + 2) = 0 THEN " " ELSE IF i % (l + 2) = l + 1 THEN "." ELSE "s"]

LongTexts ==
    {WordsOf(10, 1), WordsOf(150, 1), WordsOf(158, 1), WordsOf(21, 25),
     SentencesOf(30, 9), <<" ">>}

LongSpans ==
    {<<Entry(t, 0, d * TicksPerSec)>> : t \in LongTexts, d \in {15, 16, 60}}
        \cup {<<Entry(WordsOf(150, 1), 0, 60 * TicksPerSec),
                Entry(WordsOf(10, 1), 60 * TicksPerSec, 60 * TicksPerSec)>>}

\* the scenario of three captions, a span without duration and a text with a
\* character reference
OtherLists ==
    { <<Entry(<<"H", "e", "l", "l", "o", " ", "w", "o", "r", "l", "d", ".">>, 0, TicksPerSec),
        Entry(<<"H", "o", "w", " ", "a", "r", "e", " ", "y", "o", "u", " ", "t", "o", "d", "a", "y">>,
              TicksPerSec, TicksPerSec),
        Entry(<<"I", " ", "a", "m", " ", "f", "i", "n", "e", ".">>,
              2 * TicksPerSec + TicksPerSec \div 2, TicksPerSec)>>,
      <<Entry(<<"a">>, 0, 0)>>,
      <<Entry(<<"a">>, 0, 0), Entry(<<"a">>, 0, TicksPerSec)>>,
      <<Entry(<<"i", "t", "&", "#", "3", "9", ";", "s">>, 0, TicksPerSec)>> }

TranscriptInputs == Runs1s \cup ShortLists \cup LongSpans \cup OtherLists

InitSegment ==
    /\ cfg \in [token : {FALSE}, worker : {FALSE}, pinecone : {FALSE}]
    /\ segs = [v \in VideoIds |-> <<>>]
    /\ video_status = [v \in VideoIds |-> "absent"]
    /\ video_type = [v \in VideoIds |-> "none"]
    /\ pinecone = [exists |-> FALSE, entries |-> {}]
    /\ pc = [r \in Runs |-> "idle"]
    /\ rvid = [r \in Runs |-> 0]
    /\ processed = [r \in Runs |-> <<>>]
    /\ pending = [r \in Runs |-> <<>>]
    /\ wins = [r \in Runs |-> <<>>]
    /\ tried = [r \in Runs |-> <<>>]
    /\ fetched = [r \in Runs |-> FALSE]
    /\ idx = [r \in Runs |-> "none"]
    /\ exc = [r \in Runs |-> NoExc]
    /\ result = [r \in Runs |-> NoResult]
    /\ nreq = 0
    /\ searchOut = NoSearch
    /\ ChatIdle
    /\ BuilderIdle
    /\ UploadIdle
    /\ RetryIdle
    /\ source \in Sources
    /\ transcript \in TranscriptInputs
    /\ raw_segments = <<>>
    /\ strategy = "none"
    /\ gi = 0
    /\ current_group = NoGroup
    /\ smart_segments = <<>>
    /\ stored = <<>>
    /\ spc = "fetch"

NextSegment ==
    \/ FetchThirdParty
    \/ FetchDirect
    \/ FetchWorker
    \/ FetchWhisper
    \/ SmartSegment
    \/ GroupStep
    \/ StoreSegments

SpecSegment == InitSegment /\ [][NextSegment]_vars

(***************************************************************************)
(* Properties of the segmenter, checked under SpecSegment.                 *)
(***************************************************************************)
\* smart_segment_youtube_transcript has returned
Segmented == source \in {"third_party", "direct"} /\ spc \in {"persist", "done"}

NoSentencePunctuation(t) == \A i \in 1..Len(t) : t[i] \notin {".", "!", "?"}

Duration(segment) == segment.end - segment.start

\* spans of one second each, one after the other, without ".", "!" or "?"
PlainRun(spans) ==
    /\ spans # <<>>
    /\ \A i \in 1..Len(spans) :
        Duration(spans[i]) = TicksPerSec /\ NoSentencePunctuation(spans[i].text)
    /\ \A i \in 1..(Len(spans) - 1) : spans[i + 1].start = spans[i].end

NoneBlank(spans) == \A i \in 1..Len(spans) : Strip(spans[i].text) # <<>>

\* C21 as stated: for a run of spans of 1s each, contiguous and free of
\* sentence punctuation, every emitted group lasts at least 10s and none
\* more than 15s
C21_GroupsTenToFifteenOriginal ==
    (Segmented /\ PlainRun(raw_segments)) =>
        \A k \in 1..Len(smart_segments) :
            /\ Duration(smart_segments[k]) >= 10 * TicksPerSec
            /\ Duration(smart_segments[k]) <= 15 * TicksPerSec

\* C21 amended: for a run of non-blank spans of 1s each, contiguous and free
\* of sentence punctuation, every emitted group but the last lasts at least
\* 10s, and no group lasts more than 15s
C21_GroupsTenToFifteenAmended ==
    (Segmented /\ PlainRun(raw_segments) /\ NoneBlank(raw_segments)) =>
        /\ \A k \in 1..(Len(smart_segments) - 1) :
                Duration(smart_segments[k]) >= 10 * TicksPerSec
        /\ \A k \in 1..Len(smart_segments) :
                Duration(smart_segments[k]) <= 15 * TicksPerSec

\* a run that gave two groups of 10s and a shorter last one
C21_Witness ==
    /\ Segmented
    /\ PlainRun(raw_segments)
    /\ NoneBlank(raw_segments)
    /\ strategy = "group"
    /\ Len(smart_segments) = 3
    /\ Duration(smart_segments[1]) = 10 * TicksPerSec
    /\ Duration(smart_segments[3]) < 10 * TicksPerSec

\* C22: a single span of 60s whose text has no sentence punctuation is split
\* into more than one chunk, every chunk has at most 400 characters and the
\* last chunk ends where the span ends
C22_SplitSixtySeconds ==
    ( /\ source \in {"third_party", "direct"}
      /\ spc \in {"persist", "done", "raised"}
      /\ Len(raw_segments) = 1
      /\ Duration(raw_segments[1]) = 60 * TicksPerSec
      /\ NoSentencePunctuation(raw_segments[1].text) ) =>
        /\ spc # "raised"
        /\ Len(smart_segments) > 1
        /\ \A k \in 1..Len(smart_segments) : Len(smart_segments[k].text) <= 400
        /\ smart_segments[Len(smart_segments)].end
                = raw_segments[1].end * Den(smart_segments[Len(smart_segments)])

\* the texts of the spans that are not blank, stripped
SpanTextsOf(spans) ==
    LET kept == SelectSeq(spans, LAMBDA s : Strip(s.text) # <<>>)
    IN  [i \in 1..Len(kept) |-> Strip(kept[i].text)]

\* C23: when grouping applies and the spans stay below 5s from the first
\* start to the last end, the segmenter yields exactly one segment: the span
\* texts joined by single spaces, from the first span's start to the last
\* span's end
C23_OneSegmentBelowFiveSeconds ==
    ( /\ Segmented
      /\ strategy = "group"
      /\ raw_segments[Len(raw_segments)].end - raw_segments[1].start < 5 * TicksPerSec ) =>
        smart_segments = << Seg(JoinSpace(SpanTextsOf(raw_segments)),
                                raw_segments[1].start,
                                raw_segments[Len(raw_segments)].end) >>

\* C24: every stored segment has a text that is not blank and starts before
\* it ends, whatever the source and the strategy
C24_StoredSegmentsWellFormed ==
    spc = "done" =>
        \A k \in 1..Len(stored) :
            Strip(stored[k].text) # <<>> /\ stored[k].start < stored[k].end

\* C29: grouping drops and repeats no span: the texts of the emitted groups,
\* one after the other, are the texts of the non-blank input spans in input
\* order, also when the last spans are blank
C29_GroupingKeepsEverySpan ==
    (Segmented /\ strategy = "group") =>
        JoinSpace([k \in 1..Len(smart_segments) |-> smart_segments[k].text])
            = JoinSpace(SpanTextsOf(raw_segments))

\* C30: in grouping, when a non-blank span has been appended the group is
\* emitted exactly when (a) it has reached 5s and the span ends with ".", "!"
\* or "?", or (b) it has reached 10s, or (c) it has reached 5s, the span is
\* not the last and the next span starts more than 0.5s later, or (d) it has
\* reached 15s, or (e) the span is the last of the input; so a group emitted
\* before the last span lasts at least 5s
C30_EmittedExactlyWhen ==
    [][ ( /\ spc = "group"
          /\ gi' = gi + 1
          /\ Strip(raw_segments[gi].text) # <<>> ) =>
        LET span == raw_segments[gi]
            text == Strip(span.text)
            first == IF current_group.start = <<>> THEN span.start
                     ELSE current_group.start[1]
            reached == span.end - first
            last == gi = Len(raw_segments)
            a == reached >= 5 * TicksPerSec /\ text[Len(text)] \in {".", "!", "?"}
            b == reached >= 10 * TicksPerSec
            c == /\ reached >= 5 * TicksPerSec
                 /\ ~last
                 /\ 2 * (raw_segments[gi + 1].start - span.end) > TicksPerSec
            d == reached >= 15 * TicksPerSec
            emitted == Len(smart_segments') = Len(smart_segments) + 1
        IN  /\ emitted <=> (a \/ b \/ c \/ d \/ last)
            /\ ~emitted => smart_segments' = smart_segments
            /\ emitted =>
                /\ SubSeq(smart_segments', 1, Len(smart_segments)) = smart_segments
                /\ smart_segments'[Len(smart_segments')].start = first
                /\ smart_segments'[Len(smart_segments')].end = span.end
            /\ (emitted /\ ~last) =>
                    Duration(smart_segments'[Len(smart_segments')]) >= 5 * TicksPerSec
      ]_vars

\* a group emitted at a pause: it lasts between 5s and 10s, does not end a
\* sentence, and the next span starts more than 0.5s after it
C30_Witness ==
    /\ spc = "group"
    /\ Len(smart_segments) = 1
    /\ gi <= Len(raw_segments)
    /\ current_group = NoGroup
    /\ Duration(smart_segments[1]) >= 5 * TicksPerSec
    /\ Duration(smart_segments[1]) < 10 * TicksPerSec
    /\ ~EndsSentence(smart_segments[1].text)
    /\ 2 * (raw_segments[gi].start - smart_segments[1].end) > TicksPerSec

(***************************************************************************)
(* The order of the search stages, checked under SpecSearch.               *)
(***************************************************************************)
\* the orders in which the stages can have run
StageOrders ==
    { <<"semantic">>, <<"semantic", "exact">>, <<"semantic", "exact", "words">>,
      <<"exact">>, <<"exact", "words">> }

\* C28: the stages run in the order semantic, exact substring, words, each
\* one only when the one before did not settle the result: the semantic stage
\* runs first whenever the index is configured; when its query completes, its
\* hits (those with blank text dropped, none left included) are the result and
\* no database stage runs; the word stage runs only after an exact stage that
\* answered with no match.
C28_FirstSuccessfulStageWins ==
    Searched =>
        LET out == searchOut.out
            hits == FilterEntries(pinecone.entries, searchOut.video_id)
        IN  /\ out.stages \in StageOrders
            /\ (out.stages[1] = "semantic") <=> (searchOut.sem # "unconfigured")
            /\ searchOut.sem = "ok" =>
                    /\ out.stages = <<"semantic">>
                    /\ out.kind = "returned"
                    /\ Len(out.items) = Min(searchOut.top_k, Cardinality(hits))
                    /\ \A i \in 1..Len(out.items) :
                            /\ Strip(out.items[i].text) # <<>>
                            /\ \E e \in hits : out.items[i] =
                                    [text |-> e.text, start_time |-> e.start_time,
                                     end_time |-> e.end_time,
                                     confidence |-> out.items[i].confidence]
            /\ out.stages[Len(out.stages)] = "words" =>
                    /\ searchOut.dbq # "exact_raises"
                    /\ ExactMatches(searchOut.ordered, searchOut.query, searchOut.top_k) = <<>>

\* C28 witness: the index answered the query with no hit for a video whose
\* rows hold the query text; the empty list is the result.
C28_Witness ==
    /\ Searched
    /\ searchOut.sem = "ok"
    /\ searchOut.out = Returned(<<>>, <<"semantic">>)
    /\ ExactMatches(searchOut.ordered, searchOut.query, searchOut.top_k) # <<>>

(***************************************************************************)
(* Retries of the transcript fetch, checked under Spec.                    *)
(***************************************************************************)
\* call i of run r raised something else than the rate-limit signal and the
\* chain has taken it as the strategy's failure: the next call is another
\* strategy's, or the run has left the strategy.  A timeout and a transport
\* failure (httpx.TimeoutException, httpx.ConnectError) are among what a
\* strategy raises: each strategy wraps whatever it catches alike.
CountedFailure(r, i) ==
    /\ tried[r][i].kind = "raised"
    /\ tried[r][i].status # 429
    /\ IF i < Len(tried[r]) THEN tried[r][i + 1].strategy # tried[r][i].strategy
                             ELSE pc[r] # tried[r][i].strategy

\* C26: a failing call of a transcript strategy counts only after it has been
\* retried: before the chain moves on or the error surfaces, the strategy has
\* been called again at least once.
C26_FailureRetriedBeforeItCounts ==
    \A r \in Runs : \A i \in 1..Len(tried[r]) :
        CountedFailure(r, i) =>
            /\ i > 1
            /\ tried[r][i - 1].strategy = tried[r][i].strategy
            /\ tried[r][i - 1].kind = "raised"

(***************************************************************************)
(* POST /upload-youtube (routes/youtube_routes.py) and extract_youtube_id  *)
(* (youtube_service.py).  A URL is a tuple of characters.                  *)
(***************************************************************************)
\* part occurs in text at position k
OccursAt(text, part, k) ==
    /\ k >= 1
    /\ k + Len(part) - 1 <= Len(text)
    /\ SubSeq(text, k, k + Len(part) - 1) = part

\* part in text
Occurs(text, part) == \E k \in 1..Len(text) : OccursAt(text, part, k)

\* text.split(sep): the pieces of text between the occurrences of sep, taken
\* from the left
RECURSIVE SplitOn(_, _)
SplitOn(text, sep) ==
    IF ~Occurs(text, sep) THEN <<text>>
    ELSE LET k == CHOOSE i \in 1..Len(text) :
                    /\ OccursAt(text, sep, i)
                    /\ \A j \in 1..(i - 1) : ~OccursAt(text, sep, j)
         IN  <<SubSeq(text, 1, k - 1)>>
                \o SplitOn(SubSeq(text, k + Len(sep), Len(text)), sep)

\* text.split(sep, 1)[1]: what follows the first occurrence of sep, the
\* empty text when there is none
AfterFirst(text, sep) ==
    IF ~Occurs(text, sep) THEN <<>>
    ELSE SubSeq(text, Len(SplitOn(text, sep)[1]) + Len(sep) + 1, Len(text))

\* urllib.parse.urlparse(url).query: the fragment is cut off at the first "#",
\* the query is what follows the first "?" of the rest
UrlQuery(url) == AfterFirst(SplitOn(url, <<"#">>)[1], <<"?">>)

\* urllib.parse.parse_qs(query): the fields between "&" that have a "=", as
\* name and value; a field with an empty value is left out.  (The texts of the
\* model hold no "%" and no "+", which parse_qs would decode.)
QueryFields(query) ==
    LET fields == SplitOn(query, <<"&">>)
        pairs == [i \in 1..Len(fields) |->
                    [has |-> Occurs(fields[i], <<"=">>),
                     name |-> SplitOn(fields[i], <<"=">>)[1],
                     value |-> AfterFirst(fields[i], <<"=">>)]]
    IN  SelectSeq(pairs, LAMBDA p : p.has /\ p.value # <<>>)

YoutuBe == <<"y", "o", "u", "t", "u", ".", "b", "e", "/">>
WatchPath == <<"y", "o", "u", "t", "u", "b", "e", ".", "c", "o", "m", "/", "w", "a", "t", "c", "h">>
EmbedPath == <<"y", "o", "u", "t", "u", "b", "e", ".", "c", "o", "m", "/", "e", "m", "b", "e", "d", "/">>

Extracted(id) == [kind |-> "ok", id |-> id]
ExtractRaises(e) == [kind |-> "raised", exc |-> e]

\* extract_youtube_id, lines 11-22
extract_youtube_id(url) ==
    IF Occurs(url, YoutuBe)
    THEN Extracted(SplitOn(SplitOn(url, YoutuBe)[2], <<"?">>)[1])
    ELSE IF Occurs(url, WatchPath)
    THEN LET v == SelectSeq(QueryFields(UrlQuery(url)), LAMBDA p : p.name = <<"v">>)
         IN  IF v = <<>> THEN ExtractRaises("KeyError") ELSE Extracted(v[1].value)
    ELSE IF Occurs(url, EmbedPath)
    THEN Extracted(SplitOn(SplitOn(url, EmbedPath)[2], <<"?">>)[1])
    ELSE ExtractRaises("ValueError")

\* lines 76-84: what the route makes of an exception: ValueError is answered
\* with 400, any other exception with 500
RouteStatus(e) == IF e = "ValueError" THEN 400 ELSE 500

MaxYouTubeSeconds == 180

\* get_youtube_video_info(youtube_id).get('duration'): None without an API key
\* or an answer of the API, the video's length in seconds otherwise
NoDuration == [known |-> FALSE, seconds |-> 0]
Seconds(n) == [known |-> TRUE, seconds |-> n]
Durations ==
    {NoDuration, Seconds(0), Seconds(MaxYouTubeSeconds), Seconds(MaxYouTubeSeconds + 1)}

\* line 42: if video_info.get('duration') and video_info['duration'] > 180
OverLimit(d) == d.known /\ d.seconds # 0 /\ d.seconds > MaxYouTubeSeconds

\* the URLs of the requests: YouTube video URLs of the three forms, and URLs
\* that are none
Https == <<"h", "t", "t", "p", "s", ":", "/", "/">>
IdAbc == <<"a", "b", "c">>
IdXyz == <<"x", "y", "z">>

ValidUrls ==
    { Https \o YoutuBe \o IdAbc,
      Https \o YoutuBe \o IdAbc \o <<"?", "t", "=", "1">>,
      Https \o <<"w", "w", "w", ".">> \o WatchPath \o <<"?", "v", "=", "a", "b", "c">>,
      Https \o <<"w", "w", "w", ".">> \o WatchPath \o <<"?", "v", "=", "a", "b", "c">> \o <<"&", "t", "=", "1">>,
      Https \o <<"w", "w", "w", ".">> \o WatchPath \o <<"?", "t", "=", "1">> \o <<"&", "v", "=", "x", "y", "z">>,
      Https \o <<"w", "w", "w", ".">> \o EmbedPath \o IdXyz }

InvalidUrls ==
    { <<>>,
      Https \o <<"e", "x", "a", "m", "p", "l", "e", ".", "c", "o", "m", "/", "v">>,
      Https \o <<"w", "w", "w", ".">> \o WatchPath,
      Https \o <<"w", "w", "w", ".">> \o WatchPath \o <<"?", "l", "i", "s", "t", "=", "x">>,
      Https \o <<"w", "w", "w", ".">> \o WatchPath \o <<"?", "v", "=">>,
      Https \o YoutuBe,
      Https \o <<"w", "w", "w", ".">> \o EmbedPath \o <<"?", "t", "=", "1">> }

Urls == ValidUrls \cup InvalidUrls

\* lines 29-32: the stored YouTube videos with this youtube_id
ExistingVideos(id) ==
    {v \in VideoIds : video_status[v] # "absent" /\ video_type[v] = "youtube"
                        /\ youtube_ids[v] = id}

UploadRequest(url, d, v) == [kind |-> "upload", url |-> url, duration |-> d, video |-> v]
UploadResponse(status, v, created, didFetch) ==
    [kind |-> "response", status |-> status, video |-> v, created |-> created,
     fetched |-> didFetch]

\* upload_youtube_video up to the call of process_video (lines 21-69): the
\* request is answered at once when the URL gives no id, when the video is
\* stored already, or when its known duration is over the limit; otherwise
\* the record is committed with status "uploaded" and process_video starts
UploadYouTubeUrl ==
    /\ nreq < MaxRequests - 1
    /\ AllIdle
    /\ nreq' = nreq + 1
    /\ \E url \in Urls :
        LET x == extract_youtube_id(url) IN
        IF x.kind = "raised"
        THEN /\ ureq' = UploadRequest(url, NoDuration, 0)
             /\ uresp' = UploadResponse(RouteStatus(x.exc), 0, FALSE, FALSE)
             /\ UNCHANGED <<video_status, video_type, youtube_ids, runVars>>
        ELSE IF ExistingVideos(x.id) # {}
        THEN /\ ureq' = UploadRequest(url, NoDuration, 0)
             /\ \E v \in ExistingVideos(x.id) :
                    uresp' = UploadResponse(200, v, FALSE, FALSE)
             /\ UNCHANGED <<video_status, video_type, youtube_ids, runVars>>
        ELSE \E d \in Durations :
             IF OverLimit(d)
             THEN /\ ureq' = UploadRequest(url, d, 0)
                  /\ uresp' = UploadResponse(400, 0, FALSE, FALSE)
                  /\ UNCHANGED <<video_status, video_type, youtube_ids, runVars>>
             ELSE \E v \in VideoIds :
                  /\ video_status[v] = "absent"
                  /\ \A w \in VideoIds : video_status[w] = "absent" => v <= w
                  /\ video_status' = [video_status EXCEPT ![v] = "uploaded"]
                  /\ video_type' = [video_type EXCEPT ![v] = "youtube"]
                  /\ youtube_ids' = [youtube_ids EXCEPT ![v] = x.id]
                  /\ StartRun(1, v)
                  /\ ureq' = UploadRequest(url, d, v)
                  /\ uresp' = NoUpload
    /\ UNCHANGED <<cfg, segs, pinecone, searchOut, chatVars, builderVars, segVars, retryVars>>

\* lines 69-84: process_video has returned or raised; the route answers with
\* the video, or with the HTTPException that process_video raised
UploadAnswer ==
    /\ pc[1] = "done"
    /\ ureq.kind = "upload"
    /\ uresp = NoUpload
    /\ uresp' = UploadResponse(IF result[1].kind = "ok" THEN 200 ELSE result[1].status,
                               ureq.video, TRUE, fetched[1])
    /\ pc' = [pc EXCEPT ![1] = "idle"]
    /\ rvid' = [rvid EXCEPT ![1] = 0]
    /\ processed' = [processed EXCEPT ![1] = <<>>]
    /\ pending' = [pending EXCEPT ![1] = <<>>]
    /\ wins' = [wins EXCEPT ![1] = <<>>]
    /\ tried' = [tried EXCEPT ![1] = <<>>]
    /\ fetched' = [fetched EXCEPT ![1] = FALSE]
    /\ idx' = [idx EXCEPT ![1] = "none"]
    /\ exc' = [exc EXCEPT ![1] = NoExc]
    /\ result' = [result EXCEPT ![1] = NoResult]
    /\ UNCHANGED <<cfg, dbVars, pinecone, nreq, searchOut, chatVars, builderVars, segVars,
                   ureq, youtube_ids, retryVars>>

(***************************************************************************)
(* SpecUpload: POST /upload-youtube requests, one after the other: an      *)
(* upload and the uploads that repeat it or follow it.                     *)
(***************************************************************************)
NextUpload ==
    \/ UploadYouTubeUrl
    \/ Begin(1)
    \/ TryThirdParty(1)
    \/ TryWorker(1)
    \/ TryDirect(1)
    \/ PersistSegments(1)
    \/ BuildWindows(1)
    \/ StoreEmbeddings(1)
    \/ MarkReady(1)
    \/ HandleException(1)
    \/ UploadAnswer

\* every strategy of the chain is configured, the index is not
InitUpload ==
    /\ Init
    /\ cfg = [token |-> TRUE, worker |-> TRUE, pinecone |-> FALSE]

SpecUpload == InitUpload /\ [][NextUpload]_vars

\* C27: an upload-youtube request whose URL is not a YouTube video URL, or
\* whose video is known to be longer than 180s, is answered with status 400,
\* and it has created no video record and started no transcript fetch.
C27_InvalidUploadRejected ==
    (/\ uresp.kind = "response"
     /\ \/ ureq.url \notin ValidUrls
        \/ (ureq.duration.known /\ ureq.duration.seconds > MaxYouTubeSeconds))
        => /\ uresp.status = 400
           /\ ~uresp.created
           /\ ~uresp.fetched

(***************************************************************************)
(* SpecIsolation: processing runs and searches over several videos that    *)
(* share one index.  The videos are YouTube videos fetched by the direct   *)
(* strategy; a search is made when no run is under way.                    *)
(***************************************************************************)
InitIsolation ==
    /\ Init
    /\ cfg = [token |-> FALSE, worker |-> FALSE, pinecone |-> TRUE]

IsolationRequest ==
    /\ searchOut = NoSearch
    /\ nreq < MaxRequests - 1
    /\ (SeqUploadYouTube \/ SeqProcess)

IsolationSearch == AllIdle /\ SearchVideo

NextIsolation ==
    \/ IsolationRequest
    \/ Begin(1)
    \/ TryDirect(1)
    \/ PersistSegments(1)
    \/ BuildWindows(1)
    \/ StoreEmbeddings(1)
    \/ MarkReady(1)
    \/ HandleException(1)
    \/ Respond(1)
    \/ IsolationSearch
    \/ SearchAnswered

SpecIsolation == InitIsolation /\ [][NextIsolation]_vars

\* the match is a stored segment of video v, or a window of v in the index
FromVideo(item, v, table, entries) ==
    \/ \E i \in 1..Len(table[v]) :
            /\ item.text = table[v][i].text
            /\ item.start_time = table[v][i].start
            /\ item.end_time = table[v][i].end
    \/ \E e \in entries :
            /\ e.video_id = v
            /\ e.id[1] = v
            /\ item.text = e.text
            /\ item.start_time = e.start_time
            /\ item.end_time = e.end_time

\* C25: every match a search of video v returns is a segment or a window of
\* v, and a step that changes the index adds, replaces and removes only
\* entries of the video being processed, under keys that start with its id.
C25_VideosIsolated ==
    [][/\ searchOut'.kind = "searched" =>
            \A i \in 1..Len(searchOut'.out.items) :
                FromVideo(searchOut'.out.items[i], searchOut'.video_id, segs', pinecone'.entries)
       /\ \A e \in pinecone.entries :
            e \notin pinecone'.entries =>
                \E r \in Runs : pc[r] = "index" /\ rvid[r] = e.video_id /\ e.id[1] = rvid[r]
       /\ \A e \in pinecone'.entries :
            e \notin pinecone.entries =>
                \E r \in Runs : pc[r] = "index" /\ rvid[r] = e.video_id /\ e.id[1] = rvid[r]
      ]_vars

\* C25 witness: two videos have windows in the index, with different texts,
\* and a search of one of them has returned a window from the index.
C25_Witness ==
    /\ searchOut.kind = "searched"
    /\ searchOut.sem = "ok"
    /\ searchOut.out.items # <<>>
    /\ \E e1, e2 \in pinecone.entries :
            /\ e1.video_id = searchOut.video_id
            /\ e2.video_id # searchOut.video_id
            /\ \A e \in pinecone.entries : e.video_id = e1.video_id => e.text # e2.text

(***************************************************************************)
(* The choice of the strategy, checked under SpecSegment.                  *)
(***************************************************************************)
\* the segmenter has looked at a transcript that is not empty
StrategyPicked ==
    /\ source \in {"third_party", "direct"}
    /\ raw_segments # <<>>
    /\ spc \in {"group", "persist", "done", "raised"}

\* C31: from the moment the segmenter has looked at the spans to its end the
\* strategy is splitting iff there is one span or the average duration is over
\* 30s, grouping iff it is not splitting and the average is under 5s, passing
\* through otherwise; passing through returns the spans unchanged, no span
\* gives no segment, and one span of zero duration gives that span as the one
\* segment, start = end.
C31_StrategyByAverage ==
    LET count == Len(raw_segments)
        total == SumDurations(raw_segments)
        splitting == count = 1 \/ total > 30 * TicksPerSec * count
        grouping == ~splitting /\ total < 5 * TicksPerSec * count
    IN  /\ StrategyPicked =>
            /\ strategy = "split" <=> splitting
            /\ strategy = "group" <=> grouping
            /\ strategy = "pass" <=> (~splitting /\ ~grouping)
        /\ (Segmented /\ strategy = "pass") => smart_segments = raw_segments
        /\ (Segmented /\ raw_segments = <<>>) => smart_segments = <<>>
        /\ (StrategyPicked /\ count = 1 /\ raw_segments[1].start = raw_segments[1].end)
                => /\ Segmented
                   /\ smart_segments = raw_segments
                   /\ smart_segments[1].start = smart_segments[1].end

\* C31 witness: a transcript of one span of zero duration has been segmented.
C31_Witness ==
    /\ Segmented
    /\ Len(raw_segments) = 1
    /\ raw_segments[1].start = raw_segments[1].end
    /\ strategy = "split"
    /\ Len(smart_segments) = 1

(***************************************************************************)
(* The times of the chunks of a split span, checked under SpecSegment.     *)
(***************************************************************************)
\* chunks are what splitting makes of span: the span itself when it is at most
\* 15s long; otherwise chunks that follow one another from the span's start to
\* its end, every chunk but the last as long as its share of the characters.
\* The times of a chunk are counted in 1/len(text) of a tick.
ChunksOfSpan(span, chunks) ==
    LET duration == span.end - span.start
        den == Len(span.text)
    IN  IF duration <= 15 * TicksPerSec THEN chunks = <<span>>
        ELSE IF chunks = <<>> THEN Strip(span.text) = <<>>
        ELSE /\ \A i \in 1..Len(chunks) :
                    /\ Den(chunks[i]) = den
                    /\ chunks[i].start <= chunks[i].end
             /\ chunks[1].start = span.start * den
             /\ \A i \in 1..(Len(chunks) - 1) :
                    /\ chunks[i].end = chunks[i].start + Len(chunks[i].text) * duration
                    /\ chunks[i + 1].start = chunks[i].end
             /\ chunks[Len(chunks)].end = span.end * den

\* the chunks of the spans, span after span
RECURSIVE ChunksOfSpans(_, _)
ChunksOfSpans(spans, chunks) ==
    IF spans = <<>> THEN chunks = <<>>
    ELSE \E k \in 0..Len(chunks) :
            /\ ChunksOfSpan(spans[1], SubSeq(chunks, 1, k))
            /\ ChunksOfSpans(Tail(spans), SubSeq(chunks, k + 1, Len(chunks)))

\* C32: what splitting returns is, span by span, the span unchanged when it
\* is at most 15s long, and otherwise chunks that are consecutive in time:
\* the first starts at the span's start, a flushed chunk ends at
\* start + len(chunk text) * duration / len(text), the next one starts there,
\* the last one ends at the span's end, and start <= end in every chunk.
C32_ChunksConsecutive ==
    (Segmented /\ strategy = "split") => ChunksOfSpans(raw_segments, smart_segments)

\* C32 witness: a span of more than 15s has been split into several chunks.
C32_Witness ==
    /\ Segmented
    /\ strategy = "split"
    /\ Len(raw_segments) = 1
    /\ raw_segments[1].end - raw_segments[1].start > 15 * TicksPerSec
    /\ Len(smart_segments) >= 2

(***************************************************************************)
(* The content of a window, checked under SpecWindows.                     *)
(***************************************************************************)
\* the segments of the list that intersect [current_time, window_end)
Intersecting(segments, current_time, window_end) ==
    SelectSeq(segments, LAMBDA s : s.start < window_end /\ s.end > current_time)

\* C33: the text of the window emitted at current_time is the trimmed texts,
\* joined by single spaces in input order, of exactly the segments that
\* intersect [current_time, current_time + 10s): those with
\* start < window_end and end > current_time (every segment having
\* start < end).
C33_WindowHoldsIntersecting ==
    (Built /\ \A k \in 1..Len(given) : given[k].start < given[k].end) =>
        \A i \in 1..Len(built) :
            built[i].text =
                JoinSpace(MapStripText(
                    Intersecting(given, built[i].start_time,
                                 built[i].start_time + 10 * TicksPerSec)))

(***************************************************************************)
(* SpecStride: create_overlapping_windows called with window_size and      *)
(* overlap of the caller's choice.                                         *)
(***************************************************************************)
\* window_size and overlap in seconds, 0 < overlap < window_size
ArgChoices ==
    { [window_size |-> w * TicksPerSec, overlap |-> o * TicksPerSec] :
        w \in {6, 10}, o \in {2, 5} }
        \cup {[window_size |-> 10 * TicksPerSec, overlap |-> 8 * TicksPerSec]}

InitStride ==
    /\ cfg \in [token : {FALSE}, worker : {FALSE}, pinecone : {FALSE}]
    /\ segs = [v \in VideoIds |-> <<>>]
    /\ video_status = [v \in VideoIds |-> "absent"]
    /\ video_type = [v \in VideoIds |-> "none"]
    /\ pinecone = [exists |-> FALSE, entries |-> {}]
    /\ pc = [r \in Runs |-> "idle"]
    /\ rvid = [r \in Runs |-> 0]
    /\ processed = [r \in Runs |-> <<>>]
    /\ pending = [r \in Runs |-> <<>>]
    /\ wins = [r \in Runs |-> <<>>]
    /\ tried = [r \in Runs |-> <<>>]
    /\ fetched = [r \in Runs |-> FALSE]
    /\ idx = [r \in Runs |-> "none"]
    /\ exc = [r \in Runs |-> NoExc]
    /\ result = [r \in Runs |-> NoResult]
    /\ nreq = 0
    /\ searchOut = NoSearch
    /\ ChatIdle
    /\ SegmenterIdle
    /\ UploadIdle
    /\ RetryIdle
    /\ given \in SegmentLists
    /\ built = <<>>
    /\ upserted = {}
    /\ bpc = "start"
    /\ window_args \in ArgChoices

\* create_overlapping_windows(segments, window_size, overlap)
BuildWithArgs ==
    /\ bpc = "start"
    /\ built' = create_overlapping_windows(given, window_args.window_size, window_args.overlap)
    /\ bpc' = "built"
    /\ UNCHANGED <<given, upserted, window_args>>
    /\ UNCHANGED <<cfg, dbVars, pinecone, runVars, nreq, searchOut, chatVars, segVars,
                   uploadVars, retryVars>>

NextStride == BuildWithArgs

SpecStride == InitStride /\ [][NextStride]_vars

\* C34: the window start advances by window_size - overlap: every window
\* starts at a multiple of it, and over one spoken segment that begins at 0
\* (no position left out) the starts of consecutive windows are
\* window_size - overlap apart, so that the two positions share overlap.
C34_StrideIsSizeMinusOverlap ==
    LET stride == window_args.window_size - window_args.overlap IN
    bpc = "built" =>
        /\ \A i \in 1..Len(built) : built[i].start_time % stride = 0
        /\ (Len(given) = 1 /\ given[1].start = 0 /\ Strip(given[1].text) # <<>>) =>
                \A i \in 1..(Len(built) - 1) :
                    /\ built[i + 1].start_time - built[i].start_time = stride
                    /\ built[i].start_time + window_args.window_size
                            - built[i + 1].start_time = window_args.overlap

(***************************************************************************)
(* The spans handed to the segmenter, checked under SpecSegment.           *)
(***************************************************************************)
\* C35: the spans a normalizing source (third-party API, direct scraping)
\* hands to the segmenter are the raw entries with non-blank text, in the
\* order of the entries, each with its text trimmed and end = start + dur.
C35_NormalizedSpans ==
    (source \in {"third_party", "direct"} /\ spc # "fetch") =>
        LET kept == SelectSeq(transcript, LAMBDA e : Strip(e.text) # <<>>)
        IN  /\ Len(raw_segments) = Len(kept)
            /\ \A i \in 1..Len(raw_segments) :
                    /\ raw_segments[i].start = kept[i].start
                    /\ raw_segments[i].end = kept[i].start + kept[i].dur
                    /\ raw_segments[i].text # <<>>
                    /\ raw_segments[i].text = Strip(raw_segments[i].text)
                    /\ raw_segments[i].text \in {Strip(kept[i].text), Strip(Unescape(kept[i].text))}

(***************************************************************************)
(* SpecReindex: an uploaded video that was indexed with the windows of a   *)
(* longer transcript is processed once more and searched.                  *)
(***************************************************************************)
SegMore == Seg(<<"m", "o", "r", "e">>, 12 * TicksPerSec, 18 * TicksPerSec)

\* what the speech-to-text engine returned for the video the first time
TrLong == <<SegHello, SegFine, SegMore>>

\* the video that has been processed before
ReindexVideo == CHOOSE v \in VideoIds : \A w \in VideoIds : v <= w

InitReindex ==
    /\ cfg = [token |-> FALSE, worker |-> FALSE, pinecone |-> TRUE]
    /\ video_status = [v \in VideoIds |-> IF v = ReindexVideo THEN "ready" ELSE "absent"]
    /\ video_type = [v \in VideoIds |-> IF v = ReindexVideo THEN "uploaded" ELSE "none"]
    /\ segs = [v \in VideoIds |-> IF v = ReindexVideo THEN TrLong ELSE <<>>]
    /\ pinecone =
            [exists |-> TRUE,
             entries |-> VectorsToUpsert(ReindexVideo,
                            create_overlapping_windows(TrLong, window_size, overlap))]
    /\ pc = [r \in Runs |-> "idle"]
    /\ rvid = [r \in Runs |-> 0]
    /\ processed = [r \in Runs |-> <<>>]
    /\ pending = [r \in Runs |-> <<>>]
    /\ wins = [r \in Runs |-> <<>>]
    /\ tried = [r \in Runs |-> <<>>]
    /\ fetched = [r \in Runs |-> FALSE]
    /\ idx = [r \in Runs |-> "none"]
    /\ exc = [r \in Runs |-> NoExc]
    /\ result = [r \in Runs |-> NoResult]
    /\ nreq = 0
    /\ searchOut = NoSearch
    /\ ChatIdle
    /\ BuilderIdle
    /\ SegmenterIdle
    /\ UploadIdle
    /\ RetryIdle

\* the one further POST /process
ReindexRequest ==
    /\ searchOut = NoSearch
    /\ nreq = 0
    /\ SeqProcess

ReindexSearch == AllIdle /\ SearchVideo

NextReindex ==
    \/ ReindexRequest
    \/ Begin(1)
    \/ Whisper(1)
    \/ BuildWindows(1)
    \/ StoreEmbeddings(1)
    \/ MarkReady(1)
    \/ HandleException(1)
    \/ Respond(1)
    \/ ReindexSearch
    \/ SearchAnswered

SpecReindex == InitReindex /\ [][NextReindex]_vars

\* C36: an index write of a run with n' windows leaves the video's entries
\* with a position of n' or more as they are, and puts the n' windows of the
\* run under the positions 0 .. n'-1, in place of what was there.
C36_StaleEntriesStay ==
    [][\A r \in Runs :
        (pc[r] = "index" /\ idx'[r] = "ok") =>
            LET v == rvid[r]
                n == Len(wins[r])
            IN  /\ \A e \in pinecone.entries :
                        (e.video_id = v /\ e.id[2] >= n) => e \in pinecone'.entries
                /\ \A i \in 1..n :
                        \A e \in pinecone'.entries :
                            e.id = <<v, i - 1>> =>
                                /\ e.text = wins[r][i].text
                                /\ e.start_time = wins[r][i].start_time
                                /\ e.end_time = wins[r][i].end_time
                /\ \A i \in 1..n : \E e \in pinecone'.entries : e.id = <<v, i - 1>>
      ]_vars

\* C36 witness: the video was indexed again with three windows in place of
\* four; the third entry has been overwritten, the fourth is still there, and
\* a semantic search of the video has returned the fourth, stale window.
C36_Witness ==
    /\ searchOut.kind = "searched"
    /\ searchOut.video_id = ReindexVideo
    /\ searchOut.sem = "ok"
    /\ \E e \in pinecone.entries :
            e.id = <<ReindexVideo, 2>> /\ e.end_time = 12 * TicksPerSec
    /\ \E e \in pinecone.entries :
            /\ e.id = <<ReindexVideo, 3>>
            /\ e.start_time >= 12 * TicksPerSec
            /\ \E i \in 1..Len(searchOut.out.items) :
                    /\ searchOut.out.items[i].text = e.text
                    /\ searchOut.out.items[i].start_time = e.start_time

(***************************************************************************)
(* SpecRetry: one call of a function wrapped by retry_async.  The function *)
(* is the route handler under the decorator; each of its invocations       *)
(* returns, raises an HTTPException, or raises another exception.  The     *)
(* exception of the n-th invocation carries n, so that the exception the   *)
(* wrapper raises in the end can be told from the earlier ones.  Waits are *)
(* in ticks.                                                               *)
(***************************************************************************)
MaxRetries == 3

RetryCounts == 0..MaxRetries
Delays == {TicksPerSec, 2 * TicksPerSec}
Backoffs == {1, 2, 3}
RetryArgs ==
    {[kind |-> "args", max_retries |-> m, delay |-> d, backoff |-> b] :
        m \in RetryCounts, d \in Delays, b \in Backoffs}

FuncReturned == [kind |-> "returned"]
FuncHTTPException == [kind |-> "HTTPException"]
FuncException(n) == [kind |-> "Exception", n |-> n]
WrapperRaised(e) == [kind |-> "raised", exc |-> e]

\* what the n-th invocation of the wrapped function can do
FuncOutcomes(n) == {FuncReturned, FuncHTTPException, FuncException(n)}

RetryableAnyException(o) == o.kind \in {"Exception", "HTTPException"}

\* the except clauses: an HTTPException is re-raised, any other Exception
\* is kept for a retry
Retryable(o) == o.kind = "Exception"

\* current_delay *= backoff
NextDelay(d, b) == d * b

\* the decorated function is called: the wrapper's locals are set
RetryStart ==
    /\ rt_pc = "idle"
    /\ \E a \in RetryArgs :
        /\ rt_args' = a
        /\ current_delay' = a.delay
    /\ attempt' = 0
    /\ last_exception' = NoRetry
    /\ rt_pc' = "call"
    /\ UNCHANGED <<invocations, slept, rt_result>>
    /\ UNCHANGED <<cfg, dbVars, pinecone, runVars, nreq, searchOut, chatVars,
                   builderVars, segVars, uploadVars>>

\* one pass of the for loop up to its await of the sleep: the function is
\* invoked; its result is returned, its HTTPException re-raised, another
\* exception kept, and raised after the loop when attempt == max_retries
RetryInvoke ==
    /\ rt_pc = "call"
    /\ attempt <= rt_args.max_retries
    /\ \E o \in FuncOutcomes(Len(invocations) + 1) :
        /\ invocations' = Append(invocations, o)
        /\ IF Retryable(o)
              THEN /\ last_exception' = o
                   /\ IF attempt = rt_args.max_retries
                         THEN rt_pc' = "done" /\ rt_result' = WrapperRaised(o)
                         ELSE rt_pc' = "sleep" /\ UNCHANGED rt_result
              ELSE /\ rt_pc' = "done"
                   /\ rt_result' = IF o = FuncReturned THEN FuncReturned ELSE WrapperRaised(o)
                   /\ UNCHANGED last_exception
    /\ UNCHANGED <<rt_args, attempt, current_delay, slept>>
    /\ UNCHANGED <<cfg, dbVars, pinecone, runVars, nreq, searchOut, chatVars,
                   builderVars, segVars, uploadVars>>

\* await asyncio.sleep(current_delay); current_delay *= backoff; the loop
\* goes on with the next attempt
RetrySleep ==
    /\ rt_pc = "sleep"
    /\ slept' = Append(slept, current_delay)
    /\ current_delay' = NextDelay(current_delay, rt_args.backoff)
    /\ attempt' = attempt + 1
    /\ rt_pc' = "call"
    /\ UNCHANGED <<rt_args, last_exception, invocations, rt_result>>
    /\ UNCHANGED <<cfg, dbVars, pinecone, runVars, nreq, searchOut, chatVars,
                   builderVars, segVars, uploadVars>>

NextRetry ==
    \/ RetryStart
    \/ RetryInvoke
    \/ RetrySleep

InitRetry ==
    /\ Init
    /\ cfg = [token |-> TRUE, worker |-> TRUE, pinecone |-> FALSE]

SpecRetry == InitRetry /\ [][NextRetry]_vars

RECURSIVE Power(_, _)
Power(b, k) == IF k = 0 THEN 1 ELSE b * Power(b, k - 1)

\* C37: the wrapped function is invoked at most max_retries + 1 times; no
\* invocation follows one that returned or raised an HTTPException, whose
\* result or exception is what the wrapper returns or raises; the wait
\* before the k-th retry is delay * backoff^(k-1); and when the wrapper
\* raises another exception, max_retries + 1 invocations have failed and the
\* exception is the one of the last invocation.
C37_RetryAsync ==
    rt_pc # "idle" =>
        LET n == Len(invocations) IN
        /\ n <= rt_args.max_retries + 1
        /\ \A i \in 1..(n - 1) : invocations[i] = FuncException(i)
        /\ Len(slept) = (IF rt_pc = "call" THEN n ELSE n - 1)
        /\ \A k \in 1..Len(slept) :
                slept[k] = rt_args.delay * Power(rt_args.backoff, k - 1)
        /\ rt_pc = "sleep" => invocations[n] = FuncException(n)
        /\ rt_pc = "done" =>
            /\ n >= 1
            /\ invocations[n] = FuncReturned => rt_result = FuncReturned
            /\ invocations[n] = FuncHTTPException =>
                    rt_result = WrapperRaised(FuncHTTPException)
            /\ invocations[n] = FuncException(n) =>
                    /\ n = rt_args.max_retries + 1
                    /\ rt_result = WrapperRaised(FuncException(n))

\* C37: three retries at growing waits have failed and the wrapper has
\* raised the exception of the fourth invocation
C37_Witness ==
    /\ rt_pc = "done"
    /\ rt_args.max_retries = 3
    /\ rt_args.backoff = 2
    /\ Len(invocations) = 4
    /\ Len(slept) = 3
    /\ slept[3] = 4 * rt_args.delay
    /\ rt_result = WrapperRaised(FuncException(4))

(***************************************************************************)
(* A failed run and the segments table                                     *)
(***************************************************************************)

RaceVideo == CHOOSE v \in VideoIds : \A w \in VideoIds : v <= w

\* positions at which the handler of run r is not running
Suspended(r) == pc[r] \in {"idle", "begin", "third_party", "worker", "done"}

\* the event loop can run the handler of r: no other handler is in the
\* middle of a stretch without await
CanRun(r) == \A q \in Runs \ {r} : Suspended(q)

InitRace ==
    /\ Init
    /\ cfg = [token |-> TRUE, worker |-> FALSE, pinecone |-> FALSE]

RaceUpload ==
    \E r \in Runs : CanRun(r) /\ nreq < MaxRequests - 1 /\ UploadYouTube(r, RaceVideo)

RaceProcess ==
    \E r \in Runs :
        /\ CanRun(r)
        /\ nreq < MaxRequests - 1
        /\ video_status[RaceVideo] # "absent"
        /\ ProcessRequest(r, RaceVideo)

NextRace ==
    \/ RaceUpload
    \/ RaceProcess
    \/ \E r \in Runs : CanRun(r) /\ Begin(r)
    \/ \E r \in Runs : CanRun(r) /\ TryThirdParty(r)
    \/ \E r \in Runs : CanRun(r) /\ TryDirect(r)
    \/ \E r \in Runs : CanRun(r) /\ PersistSegments(r)
    \/ \E r \in Runs : CanRun(r) /\ BuildWindows(r)
    \/ \E r \in Runs : CanRun(r) /\ StoreEmbeddings(r)
    \/ \E r \in Runs : CanRun(r) /\ MarkReady(r)
    \/ \E r \in Runs : CanRun(r) /\ HandleException(r)
    \/ \E r \in Runs : CanRun(r) /\ Respond(r)

SpecRace == InitRace /\ [][NextRace]_vars

\* C39: no segment of a YouTube video is persisted twice, however the runs
\* on the video interleave
C39_SegmentsPersistedOnce ==
    \A v \in VideoIds :
        video_type[v] = "youtube" =>
            \A i, j \in 1..Len(segs[v]) : i # j => segs[v][i] # segs[v][j]

\* two runs on the video are both waiting for the transcript, each after
\* having found no segment
BothFetching ==
    \E r, q \in Runs :
        /\ r # q
        /\ rvid[r] = RaceVideo /\ rvid[q] = RaceVideo
        /\ fetched[r] /\ fetched[q]
        /\ pc[r] = "third_party" /\ pc[q] = "third_party"

(***************************************************************************)
(* SpecCover: create_overlapping_windows with its default arguments on     *)
(* lists that also hold segments of zero length, one of them at a window   *)
(* position, and texts that differ from each other and are not trimmed.    *)
(***************************************************************************)
CoverPoints == {0, 4 * TicksPerSec + 1, 10 * TicksPerSec, 12 * TicksPerSec}

CoverTexts == {<<"h", "i">>, <<" ", "f", "i", "n", "e">>, <<" ">>}

CoverSegments ==
    { Seg(x[1], x[2], x[3]) :
        x \in {y \in CoverTexts \X CoverPoints \X CoverPoints : y[2] <= y[3]} }

CoverLists ==
    UNION { [1..n -> CoverSegments] : n \in 0..MaxSegments }

InitCover ==
    /\ cfg \in [token : {FALSE}, worker : {FALSE}, pinecone : {FALSE}]
    /\ segs = [v \in VideoIds |-> <<>>]
    /\ video_status = [v \in VideoIds |-> "absent"]
    /\ video_type = [v \in VideoIds |-> "none"]
    /\ pinecone = [exists |-> FALSE, entries |-> {}]
    /\ pc = [r \in Runs |-> "idle"]
    /\ rvid = [r \in Runs |-> 0]
    /\ processed = [r \in Runs |-> <<>>]
    /\ pending = [r \in Runs |-> <<>>]
    /\ wins = [r \in Runs |-> <<>>]
    /\ tried = [r \in Runs |-> <<>>]
    /\ fetched = [r \in Runs |-> FALSE]
    /\ idx = [r \in Runs |-> "none"]
    /\ exc = [r \in Runs |-> NoExc]
    /\ result = [r \in Runs |-> NoResult]
    /\ nreq = 0
    /\ searchOut = NoSearch
    /\ ChatIdle
    /\ SegmenterIdle
    /\ UploadIdle
    /\ RetryIdle
    /\ given \in CoverLists
    /\ built = <<>>
    /\ upserted = {}
    /\ bpc = "start"
    /\ window_args = DefaultArgs

NextCover == BuildGiven

SpecCover == InitCover /\ [][NextCover]_vars

\* the trimmed text of the segment is part of the text of some window
InSomeWindowText(segment) ==
    \E i \in 1..Len(built) : Occurs(built[i].text, Strip(segment.text))

\* C40: once the windows are built, every segment with a non-blank text and
\* 0 <= start < end has its trimmed text in the text of some window; a
\* segment with a non-blank text and 0 <= start <= end whose text is in no
\* window has zero length and lies at the greatest end of the list.
C40_SegmentsReachable ==
    Built =>
        \A k \in 1..Len(given) :
            (Strip(given[k].text) # <<>> /\ 0 <= given[k].start) =>
                /\ given[k].start < given[k].end => InSomeWindowText(given[k])
                /\ ~InSomeWindowText(given[k]) =>
                        /\ given[k].start = given[k].end
                        /\ given[k].end = SeqMaxEnd(given)

\* C40: two segments with different texts share one window position, one
\* of them longer than a window and untrimmed, and both texts are in the
\* windows built
C40_Witness ==
    /\ Built
    /\ Len(built) >= 2
    /\ \E k, m \in 1..Len(given) :
        /\ given[k].text = <<"h", "i">>
        /\ given[m].text = <<" ", "f", "i", "n", "e">>
        /\ given[m].end - given[m].start > window_size
        /\ given[k].start < given[k].end
        /\ InSomeWindowText(given[k])
        /\ InSomeWindowText(given[m])

\* a zero-length segment with a text is in no window: the list ends at 0
ZeroLengthLeftOut ==
    /\ Built
    /\ \E k \in 1..Len(given) :
        /\ Strip(given[k].text) # <<>>
        /\ ~InSomeWindowText(given[k])

====
